---- MODULE Spec2Model ----
(***************************************************************************)
(* A model of the wedi editor core: History (buffer/history.rs), RopeBuffer *)
(* (buffer/rope_buffer.rs), Cursor (cursor.rs), View (view.rs) and the      *)
(* command dispatcher of Editor (editor.rs).                                *)
(*                                                                          *)
(* Text is a sequence of Unicode scalar values (code points); file          *)
(* contents are sequences of bytes 0..255.                                  *)
(***************************************************************************)
EXTENDS Integers, Sequences, FiniteSets, TLC

VARIABLES
    \* ---- History (buffer/history.rs) ----
    undo_stack,        \* Vec<Action>, oldest first
    redo_stack,        \* Vec<Action>
    max_size,          \* usize
    panicked,          \* TRUE once an operation has panicked (Rust panic)
    pushed,            \* ghost: the actions handed to History::push, in order
    only_pushes,       \* ghost: no undo/redo/clear since construction
    \* ---- RopeBuffer (buffer/rope_buffer.rs) ----
    rope,              \* the text: a sequence of code points
    file_path,         \* Option<PathBuf>: NoPath or a path
    modified,          \* bool
    in_undo_redo,      \* bool
    read_encoding,     \* &'static Encoding
    save_encoding,     \* &'static Encoding
    disk,              \* the file system: path -> bytes, or NoFile
    synced,            \* ghost: the content last loaded from / written to the file
    last,              \* ghost: the last buffer operation and its result
    \* ---- the undo/redo law's driver ----
    phase, seq_pre, seq_post, seq_n, seq_rec, seq_u, seq_k,
    \* ---- Editor (editor.rs), Cursor (cursor.rs), View (view.rs) ----
    cursor,            \* [row, col, visual_line_index, desired_visual_col]
    view,              \* [offset_row, show_line_numbers, screen_rows, screen_cols,
                       \*  line_layout_cache]
    selection,         \* Option<Selection>
    selection_mode,    \* bool
    message,           \* Option<String>: "None" or the text
    internal_clipboard,\* String
    comment_style,     \* CommentHandler.style: Option(prefix)
    should_quit,       \* bool: the loop of Editor::run ends
    quit_times,        \* u8: the Quit commands given in a row
    drawn,             \* ghost: the (row, layout) pairs the last render drew
    cmd,               \* ghost: the command handle_command was last given
    \* ---- HighlightCache (highlight/cache.rs) ----
    highlight_cache    \* [lines: line index -> CachedLine, max_size]

histVars == <<undo_stack, redo_stack, max_size, panicked, pushed, only_pushes>>
bufVars  == <<rope, file_path, modified, in_undo_redo, read_encoding, save_encoding,
              disk, synced, last>>
lawVars  == <<phase, seq_pre, seq_post, seq_n, seq_rec, seq_u, seq_k>>
edVars   == <<cursor, view, selection, selection_mode, message, internal_clipboard,
              comment_style, should_quit, quit_times, drawn, cmd, highlight_cache>>
vars     == <<histVars, bufVars, lawVars, edVars>>

(***************************************************************************)
(* Sequence helpers                                                        *)
(***************************************************************************)
Min(a, b) == IF a <= b THEN a ELSE b
Max(a, b) == IF a >= b THEN a ELSE b

\* Option<T>
Option(v) == [some |-> TRUE, val |-> v]
None == [some |-> FALSE]

\* s[from..to) with 0-based, half-open indexes (Rust's s[from..to])
Slice(s, from, to) == SubSeq(s, from + 1, to)

\* Rope::insert(pos, text)
RopeInsert(r, pos, text) == Slice(r, 0, pos) \o text \o Slice(r, pos, Len(r))

\* Rope::remove(start..end)
RopeRemove(r, start, end) == Slice(r, 0, start) \o Slice(r, end, Len(r))

(***************************************************************************)
(* ropey: lines.  A line break is LF, VT, FF, CR, NEL, LS, PS or the pair  *)
(* CR LF; len_lines is the number of line breaks plus one.                 *)
(***************************************************************************)
LF == 10
CR == 13
LineBreakChars == {10, 11, 12, 13, 133, 8232, 8233}

\* a line break ends at 1-based index i of r
BreakEndsAt(r, i) ==
    /\ r[i] \in LineBreakChars
    /\ ~(r[i] = CR /\ i < Len(r) /\ r[i + 1] = LF)

BreakEnds(r) == {i \in 1..Len(r) : BreakEndsAt(r, i)}

\* Rope::len_lines
LenLines(r) == Cardinality(BreakEnds(r)) + 1

\* Rope::line_to_char(n), 0 <= n <= len_lines
RopeLineToChar(r, n) ==
    IF n = 0 THEN 0
    ELSE IF n >= LenLines(r) THEN Len(r)
    ELSE CHOOSE i \in BreakEnds(r) : Cardinality({j \in BreakEnds(r) : j <= i}) = n

\* Rope::char_to_line(c), 0 <= c <= len_chars
RopeCharToLine(r, c) == Cardinality({i \in BreakEnds(r) : i <= c})

\* Rope::line(n) as text, terminator included
RopeLine(r, n) == Slice(r, RopeLineToChar(r, n), RopeLineToChar(r, n + 1))

(***************************************************************************)
(* History (buffer/history.rs), as functions of a History value            *)
(* h = [undo_stack, redo_stack, max_size, panicked]                        *)
(***************************************************************************)
DefaultMaxSize == 1000

InsertAction(pos, text) == [kind |-> "Insert", pos |-> pos, text |-> text]
DeleteAction(pos, text) == [kind |-> "Delete", pos |-> pos, text |-> text]
DeleteRangeAction(start, end, text) ==
    [kind |-> "DeleteRange", start |-> start, end |-> end, text |-> text]

\* History::new(max_size)
HistoryNew(m) ==
    [undo_stack |-> <<>>, redo_stack |-> <<>>, max_size |-> m, panicked |-> FALSE]

\* a push that forgets to clear the redo stack
HistoryPushNoClear(h, action) ==
    IF Len(h.undo_stack) >= h.max_size /\ h.undo_stack = <<>>
    THEN [h EXCEPT !.panicked = TRUE]
    ELSE [h EXCEPT !.undo_stack =
                      Append(IF Len(h.undo_stack) >= h.max_size
                             THEN Tail(h.undo_stack) ELSE h.undo_stack, action)]

\* History::push.  With max_size = 0 the test undo_stack.len() >= max_size holds
\* for the empty stack and Vec::remove(0) panics (index out of bounds).
HistoryPush(h, action) ==
    IF Len(h.undo_stack) >= h.max_size /\ h.undo_stack = <<>>
    THEN [h EXCEPT !.panicked = TRUE]
    ELSE [h EXCEPT !.undo_stack =
                      Append(IF Len(h.undo_stack) >= h.max_size
                             THEN Tail(h.undo_stack) ELSE h.undo_stack, action),
                   !.redo_stack = <<>>]

\* History::undo: the state after it (unchanged when it returns None)
HistoryUndo(h) ==
    IF h.undo_stack = <<>> THEN h
    ELSE [h EXCEPT !.redo_stack = Append(h.redo_stack, h.undo_stack[Len(h.undo_stack)]),
                   !.undo_stack = SubSeq(h.undo_stack, 1, Len(h.undo_stack) - 1)]

\* History::redo: the state after it (unchanged when it returns None)
HistoryRedo(h) ==
    IF h.redo_stack = <<>> THEN h
    ELSE [h EXCEPT !.undo_stack = Append(h.undo_stack, h.redo_stack[Len(h.redo_stack)]),
                   !.redo_stack = SubSeq(h.redo_stack, 1, Len(h.redo_stack) - 1)]

\* History::clear
HistoryClear(h) == [h EXCEPT !.undo_stack = <<>>, !.redo_stack = <<>>]

\* the History the variables hold, and its assignment
Hist == [undo_stack |-> undo_stack, redo_stack |-> redo_stack,
         max_size |-> max_size, panicked |-> panicked]

SetHist(h) ==
    /\ undo_stack' = h.undo_stack
    /\ redo_stack' = h.redo_stack
    /\ max_size' = h.max_size
    /\ panicked' = h.panicked

(***************************************************************************)
(* encoding_rs: the codecs the buffer is given.  Encoding::decode sniffs a *)
(* BOM, then decodes with malformed sequences replaced by U+FFFD;          *)
(* Encoding::encode encodes to the output encoding (UTF-8 for UTF-16LE/BE) *)
(* with unmappable characters written as decimal character references.     *)
(***************************************************************************)
Encodings == {"UTF-8", "UTF-16LE", "UTF-16BE", "windows-1252"}

REPLACEMENT == 65533

\* bytes 0x80..0x9F of windows-1252
W1252High ==
    <<8364, 129, 8218, 402, 8222, 8230, 8224, 8225, 710, 8240, 352, 8249, 338, 141,
      381, 143, 144, 8216, 8217, 8220, 8221, 8226, 8211, 8212, 732, 8482, 353, 8250,
      339, 157, 382, 376>>

W1252DecodeByte(b) == IF b >= 128 /\ b < 160 THEN W1252High[b - 127] ELSE b

InRange(bytes, i, lo, hi) == i <= Len(bytes) /\ bytes[i] >= lo /\ bytes[i] <= hi

\* the UTF-8 decoder from byte i on: [out |-> code points, err |-> malformed]
RECURSIVE Utf8Decode(_, _)
Utf8Decode(bytes, i) ==
    IF i > Len(bytes) THEN [out |-> <<>>, err |-> FALSE]
    ELSE
    LET b == bytes[i]
        Good(cp, n) == LET r == Utf8Decode(bytes, i + n)
                       IN  [out |-> <<cp>> \o r.out, err |-> r.err]
        Bad(n) == LET r == Utf8Decode(bytes, i + n)
                  IN  [out |-> <<REPLACEMENT>> \o r.out, err |-> TRUE]
        lo == IF b = 224 THEN 160 ELSE IF b = 240 THEN 144 ELSE 128
        hi == IF b = 237 THEN 159 ELSE IF b = 244 THEN 143 ELSE 191
    IN  CASE b < 128 -> Good(b, 1)
          [] b >= 194 /\ b <= 223 ->
                IF InRange(bytes, i + 1, 128, 191)
                THEN Good((b - 192) * 64 + (bytes[i + 1] - 128), 2)
                ELSE Bad(1)
          [] b >= 224 /\ b <= 239 ->
                IF ~InRange(bytes, i + 1, lo, hi) THEN Bad(1)
                ELSE IF ~InRange(bytes, i + 2, 128, 191) THEN Bad(2)
                ELSE Good((b - 224) * 4096 + (bytes[i + 1] - 128) * 64
                          + (bytes[i + 2] - 128), 3)
          [] b >= 240 /\ b <= 244 ->
                IF ~InRange(bytes, i + 1, lo, hi) THEN Bad(1)
                ELSE IF ~InRange(bytes, i + 2, 128, 191) THEN Bad(2)
                ELSE IF ~InRange(bytes, i + 3, 128, 191) THEN Bad(3)
                ELSE Good((b - 240) * 262144 + (bytes[i + 1] - 128) * 4096
                          + (bytes[i + 2] - 128) * 64 + (bytes[i + 3] - 128), 4)
          [] OTHER -> Bad(1)

\* the UTF-16 decoder from byte i on; le: little endian
RECURSIVE Utf16Decode(_, _, _)
Utf16Decode(bytes, i, le) ==
    IF i > Len(bytes) THEN [out |-> <<>>, err |-> FALSE]
    ELSE IF i = Len(bytes) THEN [out |-> <<REPLACEMENT>>, err |-> TRUE]
    ELSE
    LET Unit(j) == IF le THEN bytes[j] + 256 * bytes[j + 1]
                   ELSE 256 * bytes[j] + bytes[j + 1]
        u == Unit(i)
        Good(cp, n) == LET r == Utf16Decode(bytes, i + n, le)
                       IN  [out |-> <<cp>> \o r.out, err |-> r.err]
        Bad(n) == LET r == Utf16Decode(bytes, i + n, le)
                  IN  [out |-> <<REPLACEMENT>> \o r.out, err |-> TRUE]
    IN  CASE u >= 55296 /\ u <= 56319 ->
                IF i + 3 <= Len(bytes) /\ Unit(i + 2) >= 56320 /\ Unit(i + 2) <= 57343
                THEN Good(65536 + (u - 55296) * 1024 + (Unit(i + 2) - 56320), 4)
                ELSE Bad(2)
          [] u >= 56320 /\ u <= 57343 -> Bad(2)
          [] OTHER -> Good(u, 2)

\* Encoding::decode_without_bom_handling
DecodeWithoutBom(enc, bytes) ==
    CASE enc = "UTF-8" -> Utf8Decode(bytes, 1)
      [] enc = "UTF-16LE" -> Utf16Decode(bytes, 1, TRUE)
      [] enc = "UTF-16BE" -> Utf16Decode(bytes, 1, FALSE)
      [] enc = "windows-1252" ->
            [out |-> [k \in 1..Len(bytes) |-> W1252DecodeByte(bytes[k])], err |-> FALSE]

HasPrefix(bytes, pre) == Len(bytes) >= Len(pre) /\ SubSeq(bytes, 1, Len(pre)) = pre

\* Encoding::decode: BOM sniffing first
Decode(enc, bytes) ==
    CASE HasPrefix(bytes, <<239, 187, 191>>) ->
            DecodeWithoutBom("UTF-8", Slice(bytes, 3, Len(bytes)))
      [] HasPrefix(bytes, <<255, 254>>) ->
            DecodeWithoutBom("UTF-16LE", Slice(bytes, 2, Len(bytes)))
      [] HasPrefix(bytes, <<254, 255>>) ->
            DecodeWithoutBom("UTF-16BE", Slice(bytes, 2, Len(bytes)))
      [] OTHER -> DecodeWithoutBom(enc, bytes)

Utf8EncodeChar(cp) ==
    CASE cp < 128 -> <<cp>>
      [] cp >= 128 /\ cp < 2048 -> <<192 + (cp \div 64), 128 + (cp % 64)>>
      [] cp >= 2048 /\ cp < 65536 ->
            <<224 + (cp \div 4096), 128 + ((cp \div 64) % 64), 128 + (cp % 64)>>
      [] OTHER -> <<240 + (cp \div 262144), 128 + ((cp \div 4096) % 64),
                    128 + ((cp \div 64) % 64), 128 + (cp % 64)>>

\* str::len of a text: its length in UTF-8 bytes
RECURSIVE ByteLenOf(_)
ByteLenOf(s) == IF s = <<>> THEN 0 ELSE Len(Utf8EncodeChar(Head(s))) + ByteLenOf(Tail(s))

\* the decimal digits of n as ASCII bytes
RECURSIVE Digits(_)
Digits(n) == IF n < 10 THEN <<48 + n>> ELSE Digits(n \div 10) \o <<48 + (n % 10)>>

W1252EncodeChar(cp) ==
    IF cp < 128 \/ (cp >= 160 /\ cp < 256) THEN <<cp>>
    ELSE IF \E k \in 1..32 : W1252High[k] = cp
         THEN <<127 + (CHOOSE k \in 1..32 : W1252High[k] = cp)>>
         ELSE <<38, 35>> \o Digits(cp) \o <<59>>

RECURSIVE Concat(_)
Concat(ss) == IF ss = <<>> THEN <<>> ELSE Head(ss) \o Concat(Tail(ss))

\* Encoding::encode: the bytes written for text
Encode(enc, text) ==
    IF enc = "windows-1252"
    THEN Concat([k \in 1..Len(text) |-> W1252EncodeChar(text[k])])
    ELSE Concat([k \in 1..Len(text) |-> Utf8EncodeChar(text[k])])

\* RopeBuffer::detect_unicode: Some((encoding, bom_len)) or None
DetectUnicode(bytes) ==
    CASE HasPrefix(bytes, <<239, 187, 191>>) -> Option(<<"UTF-8", 3>>)
      [] HasPrefix(bytes, <<255, 254>>) -> Option(<<"UTF-16LE", 2>>)
      [] HasPrefix(bytes, <<254, 255>>) -> Option(<<"UTF-16BE", 2>>)
      [] OTHER -> IF ~Decode("UTF-8", bytes).err THEN Option(<<"UTF-8", 0>>) ELSE None

(***************************************************************************)
(* RopeBuffer editing (buffer/rope_buffer.rs), as functions of the part of *)
(* the buffer that edits touch: b = [rope, modified, in_undo_redo, history]*)
(***************************************************************************)
Panic(b) == [b EXCEPT !.history.panicked = TRUE]

\* the history.push of an edit, skipped while an undo/redo is replaying
Record(b, action) ==
    IF b.in_undo_redo THEN b
    ELSE [b EXCEPT !.history = HistoryPush(b.history, action)]

\* RopeBuffer::insert_char
BufInsertChar(b, pos0, ch) ==
    LET pos == Min(pos0, Len(b.rope))
        b1 == Record(b, InsertAction(pos, <<ch>>))
    IN  IF b1.history.panicked THEN b1
        ELSE [b1 EXCEPT !.rope = RopeInsert(b.rope, pos, <<ch>>), !.modified = TRUE]

\* RopeBuffer::insert
BufInsert(b, pos0, text) ==
    LET pos == Min(pos0, Len(b.rope))
        b1 == Record(b, InsertAction(pos, text))
    IN  IF b1.history.panicked THEN b1
        ELSE [b1 EXCEPT !.rope = RopeInsert(b.rope, pos, text), !.modified = TRUE]

\* a delete_char that marks the buffer as modified when it deletes nothing
BufDeleteCharTouches(b, pos) ==
    IF pos < Len(b.rope)
    THEN LET b1 == Record(b, DeleteAction(pos, <<b.rope[pos + 1]>>))
         IN  IF b1.history.panicked THEN b1
             ELSE [b1 EXCEPT !.rope = RopeRemove(b.rope, pos, pos + 1),
                             !.modified = TRUE]
    ELSE [b EXCEPT !.modified = TRUE]

\* RopeBuffer::delete_char
BufDeleteChar(b, pos) ==
    IF pos < Len(b.rope)
    THEN LET b1 == Record(b, DeleteAction(pos, <<b.rope[pos + 1]>>))
         IN  IF b1.history.panicked THEN b1
             ELSE [b1 EXCEPT !.rope = RopeRemove(b.rope, pos, pos + 1),
                             !.modified = TRUE]
    ELSE b

\* a delete_range that records the requested end instead of the clamped one
BufDeleteRangeUnclamped(b, start, end0) ==
    IF start < end0 /\ start < Len(b.rope)
    THEN LET end == Min(end0, Len(b.rope))
             b1 == Record(b, DeleteRangeAction(start, end0, Slice(b.rope, start, end)))
         IN  IF b1.history.panicked THEN b1
             ELSE [b1 EXCEPT !.rope = RopeRemove(b.rope, start, end),
                             !.modified = TRUE]
    ELSE b

\* RopeBuffer::delete_range
BufDeleteRange(b, start, end0) ==
    IF start < end0 /\ start < Len(b.rope)
    THEN LET end == Min(end0, Len(b.rope))
             b1 == Record(b, DeleteRangeAction(start, end, Slice(b.rope, start, end)))
         IN  IF b1.history.panicked THEN b1
             ELSE [b1 EXCEPT !.rope = RopeRemove(b.rope, start, end),
                             !.modified = TRUE]
    ELSE b

\* RopeBuffer::delete_line
BufDeleteLine(b, row) ==
    IF row < LenLines(b.rope)
    THEN LET start == RopeLineToChar(b.rope, row)
             end == IF row + 1 < LenLines(b.rope)
                    THEN RopeLineToChar(b.rope, row + 1) ELSE Len(b.rope)
             b1 == Record(b, DeleteRangeAction(start, end, Slice(b.rope, start, end)))
         IN  IF b1.history.panicked THEN b1
             ELSE [b1 EXCEPT !.rope = RopeRemove(b.rope, start, end),
                             !.modified = TRUE]
    ELSE b

\* Rope::insert / Rope::remove panic on an out-of-bounds index
InsertInBounds(r, pos) == pos <= Len(r)
RemoveInBounds(r, start, end) == start <= end /\ end <= Len(r)

\* RopeBuffer::undo: what it returns
BufUndoResult(b) ==
    IF b.history.undo_stack = <<>> THEN None
    ELSE LET action == b.history.undo_stack[Len(b.history.undo_stack)]
         IN  IF action.kind = "DeleteRange" THEN Option(action.start)
             ELSE Option(action.pos)

\* an undo that returns with the replay guard still set
BufUndoGuardStuck(b) ==
    IF b.history.undo_stack = <<>> THEN b
    ELSE LET action == b.history.undo_stack[Len(b.history.undo_stack)]
             b1 == [b EXCEPT !.history = HistoryUndo(b.history), !.in_undo_redo = TRUE]
         IN  CASE action.kind = "Insert" ->
                    IF RemoveInBounds(b.rope, action.pos, action.pos + Len(action.text))
                    THEN [b1 EXCEPT
                            !.rope = RopeRemove(b.rope, action.pos,
                                                action.pos + Len(action.text)),
                            !.modified = TRUE]
                    ELSE Panic(b1)
               [] action.kind = "Delete" ->
                    IF InsertInBounds(b.rope, action.pos)
                    THEN [b1 EXCEPT !.rope = RopeInsert(b.rope, action.pos, action.text),
                                    !.modified = TRUE]
                    ELSE Panic(b1)
               [] action.kind = "DeleteRange" ->
                    IF InsertInBounds(b.rope, action.start)
                    THEN [b1 EXCEPT !.rope = RopeInsert(b.rope, action.start, action.text),
                                    !.modified = TRUE]
                    ELSE Panic(b1)

\* RopeBuffer::undo: the buffer after it; in_undo_redo is set while the action is
\* replayed and reset before it returns
BufUndo(b) ==
    IF b.history.undo_stack = <<>> THEN b
    ELSE LET action == b.history.undo_stack[Len(b.history.undo_stack)]
             b1 == [b EXCEPT !.history = HistoryUndo(b.history), !.in_undo_redo = TRUE]
         IN  CASE action.kind = "Insert" ->
                    IF RemoveInBounds(b.rope, action.pos, action.pos + Len(action.text))
                    THEN [b1 EXCEPT
                            !.rope = RopeRemove(b.rope, action.pos,
                                                action.pos + Len(action.text)),
                            !.modified = TRUE, !.in_undo_redo = FALSE]
                    ELSE Panic(b1)
               [] action.kind = "Delete" ->
                    IF InsertInBounds(b.rope, action.pos)
                    THEN [b1 EXCEPT !.rope = RopeInsert(b.rope, action.pos, action.text),
                                    !.modified = TRUE, !.in_undo_redo = FALSE]
                    ELSE Panic(b1)
               [] action.kind = "DeleteRange" ->
                    IF InsertInBounds(b.rope, action.start)
                    THEN [b1 EXCEPT !.rope = RopeInsert(b.rope, action.start, action.text),
                                    !.modified = TRUE, !.in_undo_redo = FALSE]
                    ELSE Panic(b1)

\* RopeBuffer::redo: what it returns
BufRedoResult(b) ==
    IF b.history.redo_stack = <<>> THEN None
    ELSE LET action == b.history.redo_stack[Len(b.history.redo_stack)]
         IN  CASE action.kind = "Insert" -> Option(action.pos + Len(action.text))
               [] action.kind = "Delete" -> Option(action.pos)
               [] action.kind = "DeleteRange" -> Option(action.start)

\* RopeBuffer::redo: the buffer after it
BufRedo(b) ==
    IF b.history.redo_stack = <<>> THEN b
    ELSE LET action == b.history.redo_stack[Len(b.history.redo_stack)]
             b1 == [b EXCEPT !.history = HistoryRedo(b.history), !.in_undo_redo = TRUE]
         IN  CASE action.kind = "Insert" ->
                    IF InsertInBounds(b.rope, action.pos)
                    THEN [b1 EXCEPT !.rope = RopeInsert(b.rope, action.pos, action.text),
                                    !.modified = TRUE, !.in_undo_redo = FALSE]
                    ELSE Panic(b1)
               [] action.kind = "Delete" ->
                    IF RemoveInBounds(b.rope, action.pos, action.pos + Len(action.text))
                    THEN [b1 EXCEPT
                            !.rope = RopeRemove(b.rope, action.pos,
                                                action.pos + Len(action.text)),
                            !.modified = TRUE, !.in_undo_redo = FALSE]
                    ELSE Panic(b1)
               [] action.kind = "DeleteRange" ->
                    IF RemoveInBounds(b.rope, action.start, action.end)
                    THEN [b1 EXCEPT !.rope = RopeRemove(b.rope, action.start, action.end),
                                    !.modified = TRUE, !.in_undo_redo = FALSE]
                    ELSE Panic(b1)

\* the buffer the variables hold, and its assignment
Buf == [rope |-> rope, file_path |-> file_path, modified |-> modified,
        history |-> Hist, in_undo_redo |-> in_undo_redo,
        read_encoding |-> read_encoding, save_encoding |-> save_encoding]

SetBuf(b) ==
    /\ rope' = b.rope
    /\ file_path' = b.file_path
    /\ modified' = b.modified
    /\ SetHist(b.history)
    /\ in_undo_redo' = b.in_undo_redo
    /\ read_encoding' = b.read_encoding
    /\ save_encoding' = b.save_encoding

(***************************************************************************)
(* RopeBuffer accessors                                                    *)
(***************************************************************************)
\* RopeBuffer::line_to_char
BufLineToChar(r, line_idx) == RopeLineToChar(r, Min(line_idx, LenLines(r)))

\* RopeBuffer::char_to_line
BufCharToLine(r, char_idx) == RopeCharToLine(r, Min(char_idx, Len(r)))

\* RopeBuffer::get_line_content: the line with its terminator, "" out of range
GetLineContent(r, line_idx) == IF line_idx < LenLines(r) THEN RopeLine(r, line_idx) ELSE <<>>

\* RopeBuffer::get_line_full
GetLineFull(r, line_idx) ==
    LET line_start == BufLineToChar(r, line_idx)
        line_end == IF line_idx + 1 < LenLines(r) THEN BufLineToChar(r, line_idx + 1)
                    ELSE Len(r)
    IN  Slice(r, line_start, line_end)

\* str::trim_end_matches(['\n', '\r'])
RECURSIVE TrimLineEnd(_)
TrimLineEnd(s) ==
    IF s # <<>> /\ s[Len(s)] \in {LF, CR} THEN TrimLineEnd(SubSeq(s, 1, Len(s) - 1)) ELSE s

(***************************************************************************)
(* RopeBuffer file operations.  A file is [exists, bytes]; ok says whether *)
(* the operating system carried out the read or write.                     *)
(***************************************************************************)
NoFile == [exists |-> FALSE, bytes |-> <<>>]
File(bytes) == [exists |-> TRUE, bytes |-> bytes]

\* a from_file_with_encoding that gives a buffer for a missing file the system
\* encoding whatever the user specified, and does not mark it modified
FromFileMissingAsDefault(path, file, cfg, sys) ==
    LET det == DetectUnicode(file.bytes)
        enc == IF file.exists /\ det.some THEN det.val[1]
               ELSE IF file.exists /\ cfg.read_encoding # "None" THEN cfg.read_encoding
               ELSE sys
        bom_length == IF det.some THEN det.val[2] ELSE 0
    IN  [rope |-> IF file.exists
                  THEN Decode(enc, Slice(file.bytes, bom_length, Len(file.bytes))).out
                  ELSE <<>>,
         file_path |-> path,
         modified |-> FALSE,
         history |-> HistoryNew(DefaultMaxSize),
         in_undo_redo |-> FALSE,
         read_encoding |-> enc,
         save_encoding |-> IF cfg.save_encoding # "None" THEN cfg.save_encoding
                           ELSE IF cfg.read_encoding # "None" THEN cfg.read_encoding
                           ELSE enc]

\* RopeBuffer::from_file_with_encoding, once the file has been read:
\* cfg = [read_encoding, save_encoding] with "None" for an unset one,
\* sys = get_system_ansi_encoding()
FromFile(path, file, cfg, sys) ==
    LET det == DetectUnicode(file.bytes)
        enc == IF file.exists /\ det.some THEN det.val[1]
               ELSE IF cfg.read_encoding # "None" THEN cfg.read_encoding
               ELSE sys
        bom_length == IF det.some THEN det.val[2] ELSE 0
        decoded == Decode(enc, Slice(file.bytes, bom_length, Len(file.bytes))).out
    IN  [rope |-> IF file.exists THEN decoded ELSE <<>>,
         file_path |-> path,
         modified |-> ~file.exists,
         history |-> HistoryNew(DefaultMaxSize),
         in_undo_redo |-> FALSE,
         read_encoding |-> enc,
         save_encoding |-> IF cfg.save_encoding # "None" THEN cfg.save_encoding
                           ELSE IF cfg.read_encoding # "None" THEN cfg.read_encoding
                           ELSE enc]

\* a save that clears the modified flag before the write is known to succeed
BufSaveEager(b, ok) ==
    IF b.file_path # "None" THEN [b EXCEPT !.modified = FALSE] ELSE b

\* RopeBuffer::save: the buffer after it; it returns Ok iff SaveOk
BufSave(b, ok) ==
    IF b.file_path # "None" /\ ok THEN [b EXCEPT !.modified = FALSE] ELSE b

SaveOk(b, ok) == b.file_path # "None" /\ ok

\* RopeBuffer::save_to and RopeBuffer::save_as: the buffer after it; Ok iff ok
BufSaveAs(b, path, ok) ==
    IF ok THEN [b EXCEPT !.file_path = path, !.modified = FALSE] ELSE b

\* the bytes save, save_to and save_as hand to fs::write
SaveBytes(b) == Encode(b.save_encoding, b.rope)

\* RopeBuffer::set_read_encoding
BufSetReadEncoding(b, enc) == [b EXCEPT !.read_encoding = enc]

\* RopeBuffer::set_save_encoding
BufSetSaveEncoding(b, enc) == [b EXCEPT !.save_encoding = enc, !.modified = TRUE]

\* RopeBuffer::change_encoding
BufChangeEncoding(b, enc) == [b EXCEPT !.read_encoding = enc, !.save_encoding = enc]

\* RopeBuffer::reload_with_encoding returns Ok iff ReloadOk
ReloadOk(b, file, ok) == b.file_path # "None" /\ (file.exists => ok)

\* a reload that keeps the redo stack
BufReloadKeepRedo(b, file, ok, enc) ==
    IF ReloadOk(b, file, ok)
    THEN LET new_buffer == FromFile(b.file_path, file,
                               [read_encoding |-> enc, save_encoding |-> enc], enc)
         IN  [b EXCEPT !.rope = new_buffer.rope,
                       !.read_encoding = new_buffer.read_encoding,
                       !.save_encoding = new_buffer.save_encoding,
                       !.modified = FALSE,
                       !.history.undo_stack = <<>>]
    ELSE b

\* RopeBuffer::reload_with_encoding: the buffer after it
BufReload(b, file, ok, enc) ==
    IF ReloadOk(b, file, ok)
    THEN LET new_buffer == FromFile(b.file_path, file,
                               [read_encoding |-> enc, save_encoding |-> enc], enc)
         IN  [b EXCEPT !.rope = new_buffer.rope,
                       !.read_encoding = new_buffer.read_encoding,
                       !.save_encoding = new_buffer.save_encoding,
                       !.modified = FALSE,
                       !.history = HistoryClear(b.history)]
    ELSE b

(***************************************************************************)
(* The History specification: a History::new(max_size) driven directly     *)
(***************************************************************************)
MaxMaxSize == 3
MaxPushes == 5

\* text is written as code points: 97 is 'a', 98 is 'b'
SampleActions ==
    { InsertAction(0, <<97>>), DeleteAction(0, <<98>>),
      DeleteRangeAction(0, 1, <<97>>) }

NoCursor == [row |-> 0, col |-> 0, visual_line_index |-> 0, desired_visual_col |-> 0]

idleBuf ==
    /\ rope = <<>> /\ file_path = "None" /\ modified = FALSE /\ in_undo_redo = FALSE
    /\ read_encoding = "UTF-8" /\ save_encoding = "UTF-8"
    /\ disk = <<>> /\ synced = <<>> /\ last = [op |-> "new"]
idleLaw ==
    /\ phase = "pre" /\ seq_pre = <<>> /\ seq_post = <<>>
    /\ seq_n = 0 /\ seq_rec = 0 /\ seq_u = 0 /\ seq_k = 0
idleEd ==
    /\ cursor = NoCursor
    /\ view = <<>> /\ selection = None /\ selection_mode = FALSE
    /\ message = "None" /\ internal_clipboard = <<>> /\ comment_style = None
    /\ should_quit = FALSE /\ quit_times = 0
    /\ drawn = <<>> /\ cmd = [name |-> "None"]
    /\ highlight_cache = <<>>

InitHistory ==
    /\ \E m \in 0..MaxMaxSize :
        /\ undo_stack = HistoryNew(m).undo_stack
        /\ redo_stack = HistoryNew(m).redo_stack
        /\ max_size = HistoryNew(m).max_size
        /\ panicked = HistoryNew(m).panicked
    /\ pushed = <<>>
    /\ only_pushes = TRUE
    /\ idleBuf /\ idleLaw /\ idleEd

HPush ==
    /\ ~panicked
    /\ Len(pushed) < MaxPushes
    /\ \E a \in SampleActions :
        /\ SetHist(HistoryPush(Hist, a))
        /\ pushed' = Append(pushed, a)
    /\ UNCHANGED <<only_pushes, bufVars, lawVars, edVars>>

HUndo ==
    /\ ~panicked
    /\ SetHist(HistoryUndo(Hist))
    /\ only_pushes' = FALSE
    /\ UNCHANGED <<pushed, bufVars, lawVars, edVars>>

HRedo ==
    /\ ~panicked
    /\ SetHist(HistoryRedo(Hist))
    /\ only_pushes' = FALSE
    /\ UNCHANGED <<pushed, bufVars, lawVars, edVars>>

HClear ==
    /\ ~panicked
    /\ SetHist(HistoryClear(Hist))
    /\ only_pushes' = FALSE
    /\ UNCHANGED <<pushed, bufVars, lawVars, edVars>>

NextHistory == HPush \/ HUndo \/ HRedo \/ HClear

SpecHistory == InitHistory /\ [][NextHistory]_vars

\* the last n elements of s (all of s when it is shorter)
LastN(s, n) == SubSeq(s, Len(s) - Min(n, Len(s)) + 1, Len(s))

\* C6: History bound. push never fails, the undo stack never holds more than
\* max_size entries, and after pushing only (max_size + k pushes included) the
\* undo stack is the max_size most recent pushes in push order.
C6_HistoryBound ==
    /\ ~panicked
    /\ Len(undo_stack) <= max_size
    /\ only_pushes => undo_stack = LastN(pushed, max_size)

\* the same, for the capacities that do not make push panic
C6_HistoryBoundPositive == max_size >= 1 => C6_HistoryBound

(***************************************************************************)
(* The undo/redo specification: a RopeBuffer::new() driven by edits, undo  *)
(* and redo.  A driver marks a sequence of edit calls (phase "seq"), then  *)
(* calls undo() (phase "undo") and then redo() (phase "redo").             *)
(***************************************************************************)
MaxLen == 3
MaxEdits == 3

InputChars == {97, LF}
InputTexts == {<<>>, <<98>>, <<98, LF>>}
EditOps == {"insert_char", "insert", "delete_char", "delete_range", "delete_line"}

\* RopeBuffer::new (the encodings are those of a UTF-8 locale)
BufferNew ==
    /\ rope = <<>>
    /\ file_path = "None"
    /\ modified = FALSE
    /\ undo_stack = HistoryNew(DefaultMaxSize).undo_stack
    /\ redo_stack = HistoryNew(DefaultMaxSize).redo_stack
    /\ max_size = HistoryNew(DefaultMaxSize).max_size
    /\ panicked = FALSE
    /\ in_undo_redo = FALSE
    /\ read_encoding = "UTF-8"
    /\ save_encoding = "UTF-8"

InitLaw ==
    /\ BufferNew
    /\ pushed = <<>> /\ only_pushes = TRUE
    /\ disk = <<>> /\ synced = <<>>
    /\ last = [op |-> "new", args |-> <<>>, recorded |-> FALSE, redo_before |-> 0,
               calls |-> 0]
    /\ idleLaw /\ idleEd

\* one edit call made by the driver: b2 is the buffer after it, args the
\* positions a deletion was given
LawEdit(op, args, b2, recorded) ==
    /\ ~panicked
    /\ phase \in {"pre", "seq"}
    /\ last.calls < MaxEdits
    /\ Len(b2.rope) <= MaxLen
    /\ SetBuf(b2)
    /\ last' = [op |-> op, args |-> args, recorded |-> recorded,
                redo_before |-> Len(redo_stack), calls |-> last.calls + 1]
    /\ seq_n' = IF phase = "seq" THEN seq_n + 1 ELSE seq_n
    /\ seq_rec' = IF phase = "seq" /\ recorded THEN seq_rec + 1 ELSE seq_rec
    /\ UNCHANGED <<pushed, only_pushes, disk,
                   synced, phase, seq_pre, seq_post, seq_u, seq_k, edVars>>

LawInsertChar ==
    \E pos \in 0..(Len(rope) + 1), ch \in InputChars :
        LawEdit("insert_char", <<>>, BufInsertChar(Buf, pos, ch), TRUE)

LawInsert ==
    \E pos \in 0..(Len(rope) + 1), text \in InputTexts :
        LawEdit("insert", <<>>, BufInsert(Buf, pos, text), TRUE)

LawDeleteChar ==
    \E pos \in 0..(Len(rope) + 1) :
        LawEdit("delete_char", <<pos>>, BufDeleteChar(Buf, pos), pos < Len(rope))

LawDeleteRange ==
    \E start \in 0..(Len(rope) + 1), end \in 0..(Len(rope) + 1) :
        LawEdit("delete_range", <<start, end>>, BufDeleteRange(Buf, start, end),
                start < end /\ start < Len(rope))

LawDeleteLine ==
    \E row \in 0..LenLines(rope) :
        LawEdit("delete_line", <<>>, BufDeleteLine(Buf, row), row < LenLines(rope))

\* undo() / redo() before the marked sequence
LawPreUndo ==
    /\ ~panicked /\ phase = "pre"
    /\ SetBuf(BufUndo(Buf))
    /\ last' = [last EXCEPT !.op = "undo", !.recorded = FALSE]
    /\ UNCHANGED <<pushed, only_pushes, disk,
                   synced, lawVars, edVars>>

LawPreRedo ==
    /\ ~panicked /\ phase = "pre"
    /\ SetBuf(BufRedo(Buf))
    /\ last' = [last EXCEPT !.op = "redo", !.recorded = FALSE]
    /\ UNCHANGED <<pushed, only_pushes, disk,
                   synced, lawVars, edVars>>

LawStart ==
    /\ phase = "pre"
    /\ phase' = "seq"
    /\ seq_pre' = rope
    /\ UNCHANGED <<histVars, bufVars, seq_post, seq_n, seq_rec, seq_u, seq_k, edVars>>

LawEnd ==
    /\ phase = "seq"
    /\ phase' = "undo"
    /\ seq_post' = rope
    /\ UNCHANGED <<histVars, bufVars, seq_pre, seq_n, seq_rec, seq_u, seq_k, edVars>>

LawUndo ==
    /\ ~panicked /\ phase = "undo" /\ seq_k < seq_n
    /\ SetBuf(BufUndo(Buf))
    /\ seq_k' = seq_k + 1
    /\ last' = [last EXCEPT !.op = "undo", !.recorded = FALSE]
    /\ UNCHANGED <<pushed, only_pushes, disk,
                   synced, phase, seq_pre, seq_post, seq_n, seq_rec, seq_u, edVars>>

LawSwitch ==
    /\ phase = "undo"
    /\ phase' = "redo"
    /\ seq_u' = seq_k
    /\ seq_k' = 0
    /\ UNCHANGED <<histVars, bufVars, seq_pre, seq_post, seq_n, seq_rec, edVars>>

LawRedo ==
    /\ ~panicked /\ phase = "redo" /\ seq_k < seq_u
    /\ SetBuf(BufRedo(Buf))
    /\ seq_k' = seq_k + 1
    /\ last' = [last EXCEPT !.op = "redo", !.recorded = FALSE]
    /\ UNCHANGED <<pushed, only_pushes, disk,
                   synced, phase, seq_pre, seq_post, seq_n, seq_rec, seq_u, edVars>>

NextLaw ==
    \/ LawInsertChar \/ LawInsert \/ LawDeleteChar \/ LawDeleteRange \/ LawDeleteLine
    \/ LawPreUndo \/ LawPreRedo
    \/ LawStart \/ LawEnd \/ LawUndo \/ LawSwitch \/ LawRedo

SpecLaw == InitLaw /\ [][NextLaw]_vars

\* C1 as stated: after a sequence of n edit calls, n calls of undo() restore the
\* content before the sequence and n calls of redo() then restore the content
\* after it.
C1_UndoRedoPerCall ==
    /\ (phase = "undo" /\ seq_k = seq_n) => rope = seq_pre
    /\ (phase = "redo" /\ seq_u = seq_n /\ seq_k = seq_n) => rope = seq_post

\* C1 amended: when the sequence recorded m actions (a delete that removes
\* nothing records none) and m <= max_size, m calls of undo() restore the content
\* before the sequence and m calls of redo() then restore the content after it.
C1_UndoRedoPerAction ==
    seq_rec <= max_size =>
        /\ (phase = "undo" /\ seq_k = seq_rec) => rope = seq_pre
        /\ (phase = "redo" /\ seq_u = seq_rec /\ seq_k = seq_rec) => rope = seq_post

C1_Witness ==
    /\ phase = "redo" /\ seq_rec = 2 /\ seq_u = seq_rec /\ seq_k = seq_rec
    /\ seq_n > seq_rec
    /\ seq_pre # seq_post /\ rope = seq_post

\* C5: right after an edit that recorded an action the redo stack is empty, so
\* redo() returns None.
C5_PushClearsRedo ==
    (last.op \in EditOps /\ last.recorded) =>
        (redo_stack = <<>> /\ BufRedoResult(Buf) = None)

C5_Witness ==
    /\ last.op \in EditOps /\ last.recorded /\ last.redo_before >= 2
    /\ redo_stack = <<>>

\* the step leaves the content, the modified flag and both stacks as they were
DeletedNothing ==
    /\ rope' = rope /\ modified' = modified
    /\ undo_stack' = undo_stack /\ redo_stack' = redo_stack

\* C28: delete_char(pos) with pos >= length, and delete_range(start, end) with
\* start >= end or start >= length, leave content, modified flag, undo stack and
\* redo stack unchanged; delete_range with end > length deletes exactly the
\* characters [start, length) and records a DeleteRange whose end is the length
C28_NoOpDeletions ==
    [][(last'.calls = last.calls + 1 /\ ~panicked') =>
          /\ (last'.op = "delete_char" /\ last'.args[1] >= Len(rope)) => DeletedNothing
          /\ (/\ last'.op = "delete_range"
              /\ \/ last'.args[1] >= last'.args[2]
                 \/ last'.args[1] >= Len(rope)) => DeletedNothing
          /\ (/\ last'.op = "delete_range"
              /\ last'.args[1] < last'.args[2] /\ last'.args[1] < Len(rope)
              /\ last'.args[2] > Len(rope)) =>
                 /\ rope' = SubSeq(rope, 1, last'.args[1])
                 /\ modified'
                 /\ redo_stack' = <<>>
                 /\ undo_stack' =
                        Append(undo_stack,
                               DeleteRangeAction(last'.args[1], Len(rope),
                                                 SubSeq(rope, last'.args[1] + 1,
                                                        Len(rope))))]_vars

\* the history and the modified flag are as the edit call found them
HistoryAndFlagKept ==
    /\ modified' = modified
    /\ undo_stack' = undo_stack /\ redo_stack' = redo_stack

\* C40: an edit call that inserts or removes no characters leaves the modified
\* flag and both history stacks unchanged
C40_EmptyEditsLeaveNoTrace ==
    [][(last'.calls = last.calls + 1 /\ ~panicked' /\ rope' = rope)
           => HistoryAndFlagKept]_vars

\* the same for the calls other than insert and delete_line
C40_EmptyCharEditsLeaveNoTrace ==
    [][(/\ last'.calls = last.calls + 1 /\ ~panicked' /\ rope' = rope
        /\ last'.op \notin {"insert", "delete_line"})
           => HistoryAndFlagKept]_vars

\* a delete_char past the end of a text that left both stacks in place
C28_Witness ==
    /\ last.op = "delete_char" /\ last.args[1] > Len(rope) /\ ~last.recorded
    /\ rope # <<>> /\ modified
    /\ Len(undo_stack) = 1 /\ Len(redo_stack) = 1 /\ last.redo_before = 1

\* a delete_range with end > length that removed the text from start on
C28_ClampedWitness ==
    /\ last.op = "delete_range" /\ last.recorded
    /\ undo_stack # <<>>
    /\ undo_stack[Len(undo_stack)].kind = "DeleteRange"
    /\ undo_stack[Len(undo_stack)].start = 1
    /\ last.args[2] > undo_stack[Len(undo_stack)].end
    /\ Len(rope) = 1

(***************************************************************************)
(* The buffer specification: a RopeBuffer made by RopeBuffer::new or by    *)
(* from_file_with_encoding, then edited, saved and reloaded.               *)
(***************************************************************************)
MaxFileCalls == 2

Paths == {"p", "q"}

\* what the file at "p" may hold when the buffer is opened: "a", UTF-8 e-acute,
\* windows-1252 e-acute, "a" behind a UTF-8 BOM, "a" behind a UTF-16LE BOM
InitialFiles ==
    { NoFile, File(<<>>), File(<<97>>), File(<<195, 169>>), File(<<233>>),
      File(<<239, 187, 191, 97>>), File(<<255, 254, 97, 0>>) }

\* the EncodingConfig values a buffer is opened with: (read, save)
Configs ==
    { [read_encoding |-> "None", save_encoding |-> "None"],
      [read_encoding |-> "windows-1252", save_encoding |-> "None"],
      [read_encoding |-> "None", save_encoding |-> "UTF-16LE"] }
SystemEncodings == {"UTF-8", "windows-1252"}
ForcedEncodings == {"UTF-16LE", "windows-1252"}

\* 'a' and e-acute
FileChars == {97, 233}

Snapshot(b) == [rope |-> b.rope, file_path |-> b.file_path, modified |-> b.modified,
                read_encoding |-> b.read_encoding, save_encoding |-> b.save_encoding,
                undo_stack |-> b.history.undo_stack,
                redo_stack |-> b.history.redo_stack]

InitBuf(b) ==
    /\ rope = b.rope
    /\ file_path = b.file_path
    /\ modified = b.modified
    /\ undo_stack = b.history.undo_stack
    /\ redo_stack = b.history.redo_stack
    /\ max_size = b.history.max_size
    /\ panicked = b.history.panicked
    /\ in_undo_redo = b.in_undo_redo
    /\ read_encoding = b.read_encoding
    /\ save_encoding = b.save_encoding

FirstLast(b) ==
    [op |-> "open", ok |-> TRUE, before |-> Snapshot(b), enc |-> "None",
     file |-> NoFile, calls |-> 0]

Init ==
    /\ \E sys \in SystemEncodings :
        \/ /\ InitBuf([rope |-> <<>>, file_path |-> "None", modified |-> FALSE,
                       history |-> HistoryNew(DefaultMaxSize), in_undo_redo |-> FALSE,
                       read_encoding |-> sys, save_encoding |-> sys])
           /\ disk = [p \in Paths |-> NoFile]
           /\ synced = [has |-> TRUE, text |-> <<>>]
        \/ \E file \in InitialFiles, cfg \in Configs :
           /\ InitBuf(FromFile("p", file, cfg, sys))
           /\ disk = [p \in Paths |-> IF p = "p" THEN file ELSE NoFile]
           /\ synced = [has |-> file.exists, text |-> rope]
    /\ last = FirstLast(Buf)
    /\ pushed = <<>> /\ only_pushes = TRUE
    /\ idleLaw /\ idleEd

\* an edit, undo or redo call: b2 is the buffer after it
FileEdit(op, b2) ==
    /\ ~panicked
    /\ last.calls < MaxFileCalls
    /\ Len(b2.rope) <= MaxLen
    /\ SetBuf(b2)
    /\ last' = [last EXCEPT !.op = op, !.ok = TRUE, !.calls = last.calls + 1]
    /\ UNCHANGED <<pushed, only_pushes, disk, synced, lawVars, edVars>>

FInsertChar ==
    \E pos \in {0, Len(rope)}, ch \in FileChars :
        FileEdit("insert_char", BufInsertChar(Buf, pos, ch))

FInsert == FileEdit("insert", BufInsert(Buf, Len(rope), <<233, LF>>))

FDeleteChar == \E pos \in {0, Len(rope)} : FileEdit("delete_char", BufDeleteChar(Buf, pos))

FDeleteRange == FileEdit("delete_range", BufDeleteRange(Buf, 0, Len(rope) + 1))

FDeleteLine == \E row \in {0, 1} : FileEdit("delete_line", BufDeleteLine(Buf, row))

FUndo ==
    /\ ~panicked
    /\ SetBuf(BufUndo(Buf))
    /\ last' = [last EXCEPT !.op = "undo", !.ok = BufUndoResult(Buf).some]
    /\ UNCHANGED <<pushed, only_pushes, disk, synced, lawVars, edVars>>

FRedo ==
    /\ ~panicked
    /\ SetBuf(BufRedo(Buf))
    /\ last' = [last EXCEPT !.op = "redo", !.ok = BufRedoResult(Buf).some]
    /\ UNCHANGED <<pushed, only_pushes, disk, synced, lawVars, edVars>>

\* what fs::write(path, bytes) leaves on disk: the bytes when it succeeds;
\* when it fails, the old file or a created/truncated empty one
WriteOutcomes(path, bytes, ok) ==
    IF ok THEN {[disk EXCEPT ![path] = File(bytes)]}
    ELSE {disk, [disk EXCEPT ![path] = File(<<>>)]}

FileOp(op, ok, b2, enc, file) ==
    /\ ~panicked
    /\ last.calls < MaxFileCalls
    /\ SetBuf(b2)
    /\ last' = [last EXCEPT !.op = op, !.ok = ok, !.before = Snapshot(Buf),
                            !.enc = enc, !.file = file, !.calls = last.calls + 1]
    /\ UNCHANGED <<pushed, only_pushes, lawVars, edVars>>

FSave ==
    \E ok \in BOOLEAN :
        /\ FileOp("save", SaveOk(Buf, ok), BufSave(Buf, ok), "None", NoFile)
        /\ IF file_path = "None" THEN disk' = disk
           ELSE disk' \in WriteOutcomes(file_path, SaveBytes(Buf), ok)
        /\ synced' = IF SaveOk(Buf, ok) THEN [has |-> TRUE, text |-> rope] ELSE synced

FSaveTo ==
    \E ok \in BOOLEAN, path \in Paths :
        /\ FileOp("save_to", ok, BufSaveAs(Buf, path, ok), "None", NoFile)
        /\ disk' \in WriteOutcomes(path, SaveBytes(Buf), ok)
        /\ synced' = IF ok THEN [has |-> TRUE, text |-> rope] ELSE synced

FSaveAs ==
    \E ok \in BOOLEAN, path \in Paths :
        /\ FileOp("save_as", ok, BufSaveAs(Buf, path, ok), "None", NoFile)
        /\ disk' \in WriteOutcomes(path, SaveBytes(Buf), ok)
        /\ synced' = IF ok THEN [has |-> TRUE, text |-> rope] ELSE synced

FSetReadEncoding ==
    \E enc \in ForcedEncodings :
        /\ FileOp("set_read_encoding", TRUE, BufSetReadEncoding(Buf, enc), enc, NoFile)
        /\ UNCHANGED <<disk, synced>>

FSetSaveEncoding ==
    \E enc \in ForcedEncodings :
        /\ FileOp("set_save_encoding", TRUE, BufSetSaveEncoding(Buf, enc), enc, NoFile)
        /\ UNCHANGED <<disk, synced>>

FChangeEncoding ==
    \E enc \in ForcedEncodings :
        /\ FileOp("change_encoding", TRUE, BufChangeEncoding(Buf, enc), enc, NoFile)
        /\ UNCHANGED <<disk, synced>>

FReload ==
    \E ok \in BOOLEAN, enc \in ForcedEncodings :
        LET file == IF file_path = "None" THEN NoFile ELSE disk[file_path]
            b2 == BufReload(Buf, file, ok, enc)
        IN  /\ FileOp("reload_with_encoding", ReloadOk(Buf, file, ok), b2, enc, file)
            /\ disk' = disk
            /\ synced' = IF ReloadOk(Buf, file, ok)
                         THEN [has |-> file.exists, text |-> b2.rope] ELSE synced

Next ==
    \/ FInsertChar \/ FInsert \/ FDeleteChar \/ FDeleteRange \/ FDeleteLine
    \/ FUndo \/ FRedo
    \/ FSave \/ FSaveTo \/ FSaveAs
    \/ FSetReadEncoding \/ FSetSaveEncoding \/ FChangeEncoding
    \/ FReload

Spec == Init /\ [][Next]_vars

\* the content differs from the one last loaded from or written to the file; a
\* buffer whose file does not exist differs
Differs ==
    \/ file_path # "None" /\ ~disk[file_path].exists
    \/ synced.has /\ rope # synced.text

\* C2: whenever the content differs from the last loaded or saved content,
\* modified is true.
C2_ModifiedWhenDiffers == Differs => modified

\* the part of C2 about content alone: whenever the content differs from the one
\* last loaded or written, modified is true.
C2_ModifiedWhenContentDiffers == (synced.has /\ rope # synced.text) => modified

WriteOps == {"save", "save_to", "save_as"}

\* C7: a failed save, save_to, save_as or reload_with_encoding leaves content,
\* file_path, modified, both encodings and the history as they were.
C7_FailureKeepsBuffer ==
    (last.op \in WriteOps \cup {"reload_with_encoding"} /\ ~last.ok) =>
        Snapshot(Buf) = last.before

C7_Witness ==
    /\ last.op \in WriteOps /\ ~last.ok
    /\ modified /\ rope # <<>> /\ undo_stack # <<>>
    /\ last.before.file_path \in Paths
    /\ disk[last.before.file_path] = File(<<>>)

\* C9: after a successful reload_with_encoding undo() and redo() return None and
\* modified is false.
C9_ReloadClearsHistory ==
    (last.op = "reload_with_encoding" /\ last.ok) =>
        /\ BufUndoResult(Buf) = None
        /\ BufRedoResult(Buf) = None
        /\ ~modified

C9_Witness ==
    /\ last.op = "reload_with_encoding" /\ last.ok
    /\ last.before.redo_stack # <<>>
    /\ last.before.modified
    /\ undo_stack = <<>> /\ redo_stack = <<>>

\* C10: a successful reload_with_encoding(E) of an existing file leaves the
\* file's bytes decoded with E as content and E as read and save encoding.
C10_ReloadForcesEncoding ==
    (last.op = "reload_with_encoding" /\ last.ok /\ last.file.exists) =>
        /\ rope = Decode(last.enc, last.file.bytes).out
        /\ read_encoding = last.enc
        /\ save_encoding = last.enc

\* C13: an operation that changes save_encoding and keeps the content
\* (set_save_encoding, change_encoding) leaves modified true and content,
\* file_path and history unchanged; set_read_encoding does not change modified
C13_SaveEncodingChangeMarksModified ==
    /\ (/\ last.op \in {"set_save_encoding", "change_encoding"}
        /\ save_encoding # last.before.save_encoding) =>
            /\ modified
            /\ rope = last.before.rope
            /\ file_path = last.before.file_path
            /\ undo_stack = last.before.undo_stack
            /\ redo_stack = last.before.redo_stack
    /\ (last.op = "set_read_encoding") => modified = last.before.modified

\* the part of C13 about set_save_encoding and set_read_encoding
C13_SetSaveEncodingMarksModified ==
    /\ (last.op = "set_save_encoding") =>
            /\ modified
            /\ rope = last.before.rope
            /\ file_path = last.before.file_path
            /\ undo_stack = last.before.undo_stack
            /\ redo_stack = last.before.redo_stack
    /\ (last.op = "set_read_encoding") => modified = last.before.modified

\* the step moves the top of stack `from` onto stack `to`, unchanged
MovesTop(from, to, from2, to2) ==
    /\ from # <<>>
    /\ from2 = SubSeq(from, 1, Len(from) - 1)
    /\ to2 = Append(to, from[Len(from)])

\* C26: each successful undo() moves exactly the top action of the undo stack onto
\* the redo stack and each successful redo() moves it back, unchanged, no other
\* action is recorded and the replay guard is off afterwards; in every state the
\* two stacks together hold at most max_size actions
C26_UndoRedoMoveOneAction ==
    /\ [](Len(undo_stack) + Len(redo_stack) <= max_size)
    /\ [][(last'.op = "undo" /\ last'.ok /\ ~panicked') =>
              /\ MovesTop(undo_stack, redo_stack, undo_stack', redo_stack')
              /\ ~in_undo_redo']_vars
    /\ [][(last'.op = "redo" /\ last'.ok /\ ~panicked') =>
              /\ MovesTop(redo_stack, undo_stack, redo_stack', undo_stack')
              /\ ~in_undo_redo']_vars

\* an undo followed by a redo, each with an action left below the one moved
C26_Witness ==
    /\ last.op = "redo" /\ last.ok /\ ~panicked
    /\ Len(undo_stack) = 2 /\ redo_stack = <<>>
    /\ undo_stack[1].kind = "Insert" /\ undo_stack[2].kind = "DeleteRange"

\* History on its own, with capacities 0..MaxMaxSize: the stacks together never
\* hold more than max_size actions
C26_HistoryStacksBounded == Len(undo_stack) + Len(redo_stack) <= max_size

\* every character of text has a byte sequence of its own in enc
Representable(enc, text) ==
    enc = "windows-1252" =>
        \A i \in 1..Len(text) :
            \/ text[i] < 128
            \/ text[i] >= 160 /\ text[i] < 256
            \/ \E k \in 1..32 : W1252High[k] = text[i]

\* a save, save_to or save_as has just written the buffer to its file
JustSaved ==
    /\ last.op \in WriteOps /\ last.ok
    /\ file_path # "None" /\ disk[file_path].exists

\* C24: after the buffer was saved with a save encoding that can represent all its
\* characters, the bytes written, decoded with that encoding, are the buffer's text
C24_SaveRoundTrip ==
    (JustSaved /\ Representable(save_encoding, rope)) =>
        DecodeWithoutBom(save_encoding, disk[file_path].bytes).out = rope

\* the round trip for the encodings that are their own output encoding
C24_SaveRoundTripNotUtf16 ==
    (/\ JustSaved /\ Representable(save_encoding, rope)
     /\ save_encoding \in {"UTF-8", "windows-1252"}) =>
        DecodeWithoutBom(save_encoding, disk[file_path].bytes).out = rope

(***************************************************************************)
(* The load specification: from_file_with_encoding called once on the path *)
(* "p", for each file the path may hold, each EncodingConfig and each      *)
(* system encoding.                                                        *)
(***************************************************************************)
\* what "p" holds: nothing; "", "a", UTF-8 e-acute, windows-1252 e-acute; behind a
\* UTF-8 BOM "a", a lone 0xE9, and a UTF-16LE BOM with "a"; behind a UTF-16LE
\* BOM "a" and a UTF-16BE BOM; behind a UTF-16BE BOM "a"
LoadFiles ==
    { NoFile, File(<<>>), File(<<97>>), File(<<195, 169>>), File(<<233>>),
      File(<<239, 187, 191, 97>>), File(<<239, 187, 191, 233>>),
      File(<<239, 187, 191, 255, 254, 97, 0>>),
      File(<<255, 254, 97, 0>>), File(<<255, 254, 254, 255>>),
      File(<<254, 255, 0, 97>>) }

\* the EncodingConfig values: (read, save), "None" for an unset one
LoadConfigs ==
    { [read_encoding |-> "None", save_encoding |-> "None"],
      [read_encoding |-> "windows-1252", save_encoding |-> "None"],
      [read_encoding |-> "None", save_encoding |-> "UTF-16LE"],
      [read_encoding |-> "UTF-16BE", save_encoding |-> "windows-1252"] }

\* before the call: no buffer yet, the inputs chosen
InitLoad ==
    /\ \E file \in LoadFiles, cfg \in LoadConfigs, sys \in SystemEncodings :
        /\ disk = [p \in Paths |-> IF p = "p" THEN file ELSE NoFile]
        /\ last = [op |-> "none", cfg |-> cfg, sys |-> sys]
    /\ InitBuf([rope |-> <<>>, file_path |-> "None", modified |-> FALSE,
                history |-> HistoryNew(DefaultMaxSize), in_undo_redo |-> FALSE,
                read_encoding |-> "UTF-8", save_encoding |-> "UTF-8"])
    /\ synced = [has |-> FALSE, text |-> <<>>]
    /\ pushed = <<>> /\ only_pushes = TRUE
    /\ idleLaw /\ idleEd

\* from_file_with_encoding("p", cfg) returns Ok(buffer)
LoadFile ==
    /\ last.op = "none"
    /\ SetBuf(FromFile("p", disk["p"], last.cfg, last.sys))
    /\ last' = [last EXCEPT !.op = "from_file_with_encoding"]
    /\ UNCHANGED <<pushed, only_pushes, disk, synced, lawVars, edVars>>

\* from_file_with_encoding("p", cfg) returns Err: the file exists and fs::read fails
LoadFails ==
    /\ last.op = "none"
    /\ disk["p"].exists
    /\ last' = [last EXCEPT !.op = "failed"]
    /\ UNCHANGED <<histVars, rope, file_path, modified, in_undo_redo, read_encoding,
                   save_encoding, disk, synced, lawVars, edVars>>

NextLoad == LoadFile \/ LoadFails

SpecLoad == InitLoad /\ [][NextLoad]_vars

\* the length of the BOM the bytes start with
BomLength(bytes) ==
    IF HasPrefix(bytes, <<239, 187, 191>>) THEN 3
    ELSE IF HasPrefix(bytes, <<255, 254>>) \/ HasPrefix(bytes, <<254, 255>>) THEN 2
    ELSE 0

\* the encoding the priority BOM > valid UTF-8 > user-specified > system default
\* gives
EncodingByPriority(bytes, cfg, sys) ==
    IF HasPrefix(bytes, <<239, 187, 191>>) THEN "UTF-8"
    ELSE IF HasPrefix(bytes, <<255, 254>>) THEN "UTF-16LE"
    ELSE IF HasPrefix(bytes, <<254, 255>>) THEN "UTF-16BE"
    ELSE IF ~Utf8Decode(bytes, 1).err THEN "UTF-8"
    ELSE IF cfg.read_encoding # "None" THEN cfg.read_encoding
    ELSE sys

\* the buffer is the one loaded from the file `bytes`: its read encoding is the one
\* the priority gives, its content the bytes behind the BOM decoded with it
LoadedByPriority(bytes) ==
    /\ read_encoding = EncodingByPriority(bytes, last.cfg, last.sys)
    /\ rope = DecodeWithoutBom(EncodingByPriority(bytes, last.cfg, last.sys),
                               Slice(bytes, BomLength(bytes), Len(bytes))).out

\* C11: from_file_with_encoding on an existing file decodes by the priority BOM >
\* valid UTF-8 > user-specified read encoding > system default, and the BOM bytes
\* are not part of the content
C11_DecoderPriority ==
    (last.op = "from_file_with_encoding" /\ disk["p"].exists) =>
        LoadedByPriority(disk["p"].bytes)

\* the same for the files that hold no second BOM behind the first
C11_DecoderPrioritySingleBom ==
    (/\ last.op = "from_file_with_encoding" /\ disk["p"].exists
     /\ BomLength(Slice(disk["p"].bytes, BomLength(disk["p"].bytes),
                        Len(disk["p"].bytes))) = 0) =>
        LoadedByPriority(disk["p"].bytes)

\* C12: from_file_with_encoding on a path that does not exist returns an empty
\* buffer for that path, modified, with an empty history and the user-specified
\* read encoding, else the system default; an existing file loads unmodified
C12_MissingFileIsNewBuffer ==
    (last.op = "from_file_with_encoding") =>
        IF disk["p"].exists THEN ~modified
        ELSE /\ rope = <<>> /\ file_path = "p" /\ modified
             /\ undo_stack = <<>> /\ redo_stack = <<>>
             /\ read_encoding = IF last.cfg.read_encoding # "None"
                                THEN last.cfg.read_encoding ELSE last.sys

\* a missing file opened with a user-specified encoding that is not the system's
C12_Witness ==
    /\ last.op = "from_file_with_encoding" /\ ~disk["p"].exists
    /\ last.cfg.read_encoding = "windows-1252" /\ last.sys = "UTF-8"
    /\ read_encoding = "windows-1252" /\ modified

(***************************************************************************)
(* View (view.rs): line layouts.  A String is a sequence of code points;   *)
(* v = [offset_row, show_line_numbers, screen_rows, screen_cols,           *)
(* line_layout_cache], the cache a sequence of Option<LineLayout>.         *)
(***************************************************************************)
TAB_WIDTH == 4
TAB == 9
SPACE == 32

\* usize::saturating_sub
SatSub(a, b) == IF a >= b THEN a - b ELSE 0

\* UnicodeWidthChar::width(ch).unwrap_or(1): 2 for the East Asian wide CJK
\* ideographs, 1 for the other characters the model types
WideChars == 19968..40959
\* characters of width 0: the combining grave accent U+0300 and the zero width
\* space U+200B
ZeroWidthChars == {768, 8203}
CharWidth(ch) ==
    IF ch \in WideChars THEN 2 ELSE IF ch \in ZeroWidthChars THEN 0 ELSE 1

\* utils::visual_width
RECURSIVE visual_width(_)
visual_width(s) == IF s = <<>> THEN 0 ELSE CharWidth(Head(s)) + visual_width(Tail(s))

\* View::logical_col_to_visual_col
RECURSIVE logical_col_to_visual_col(_, _)
logical_col_to_visual_col(line, logical_col) ==
    IF line = <<>> \/ logical_col <= 0 THEN 0
    ELSE (IF Head(line) = TAB THEN TAB_WIDTH ELSE CharWidth(Head(line)))
         + logical_col_to_visual_col(Tail(line), logical_col - 1)

\* the width of a sequence of visual lines
RECURSIVE SumWidths(_)
SumWidths(lines) == IF lines = <<>> THEN 0 ELSE visual_width(Head(lines)) + SumWidths(Tail(lines))

\* expand_tabs_and_build_map: (displayed, logical_to_visual)
RECURSIVE ExpandTabs(_)
ExpandTabs(line) ==
    IF line = <<>> THEN <<>>
    ELSE (IF Head(line) = TAB THEN [i \in 1..TAB_WIDTH |-> SPACE] ELSE <<Head(line)>>)
         \o ExpandTabs(Tail(line))

expand_tabs_and_build_map(line) ==
    [displayed |-> ExpandTabs(line),
     logical_to_visual |->
        [i \in 1..(Len(line) + 1) |-> logical_col_to_visual_col(line, i - 1)]]

\* wrap_line: the loop over line.chars()
RECURSIVE WrapFrom(_, _, _, _)
WrapFrom(line, current_line, result, max_width) ==
    IF line = <<>>
    THEN IF current_line # <<>> THEN Append(result, current_line) ELSE result
    ELSE LET ch == Head(line)
         IN  IF visual_width(current_line) + CharWidth(ch) > max_width
                /\ current_line # <<>>
             THEN WrapFrom(Tail(line), <<ch>>, Append(result, current_line), max_width)
             ELSE WrapFrom(Tail(line), Append(current_line, ch), result, max_width)

\* wrap_line
wrap_line(line, max_width) ==
    IF max_width = 0 THEN << <<>> >>
    ELSE LET result == WrapFrom(line, <<>>, <<>>, max_width)
         IN  IF result = <<>> THEN << <<>> >> ELSE result

\* LineWrapper::wrap_line (utils/line_wrapper.rs): the loop over line.chars()
RECURSIVE LineWrapperFrom(_, _, _, _)
LineWrapperFrom(line, current, wrapped, max_width) ==
    IF line = <<>>
    THEN IF current # <<>> THEN Append(wrapped, current) ELSE wrapped
    ELSE LET ch == Head(line)
         IN  IF visual_width(current) + CharWidth(ch) > max_width
             THEN LineWrapperFrom(Tail(line), <<ch>>, Append(wrapped, current), max_width)
             ELSE LineWrapperFrom(Tail(line), Append(current, ch), wrapped, max_width)

\* LineWrapper::wrap_line; line.len() is the length in UTF-8 bytes
LineWrapperWrapLine(line, max_width) ==
    IF ByteLenOf(line) <= max_width THEN <<line>>
    ELSE LineWrapperFrom(line, <<>>, <<>>, max_width)

\* LineLayout::new: the struct it builds from the wrapped lines and the map
LayoutOf(visual_lines, logical_to_visual) ==
    Option([visual_lines |-> visual_lines,
            visual_height |-> Len(visual_lines),
            logical_to_visual |-> logical_to_visual])

\* LineLayout::new: the layout of the line's text
LayoutOfLine(line, available_width) ==
    LayoutOf(wrap_line(expand_tabs_and_build_map(line).displayed, available_width),
             expand_tabs_and_build_map(line).logical_to_visual)

\* LineLayout::new
LineLayoutNew(r, row, available_width) ==
    IF row < LenLines(r)
    THEN LayoutOfLine(TrimLineEnd(RopeLine(r, row)), available_width)
    ELSE None

\* the layout render draws for a row that has no line
EmptyLayout == [visual_lines |-> << <<>> >>, visual_height |-> 1, logical_to_visual |-> <<0>>]

\* vec![None; cache_size]
EmptyCache(screen_rows) == [i \in 1..(Max(screen_rows, 1) * 3) |-> None]

\* View::new, given terminal.size() = (cols, rows)
ViewNew(size) ==
    [offset_row |-> 0, show_line_numbers |-> TRUE,
     screen_rows |-> SatSub(size[2], 1), screen_cols |-> size[1],
     line_layout_cache |-> EmptyCache(SatSub(size[2], 1))]

\* View::invalidate_cache
invalidate_cache(v) == [v EXCEPT !.line_layout_cache = EmptyCache(v.screen_rows)]

\* View::update_size, given crossterm::terminal::size() = (cols, rows)
update_size(v, size) ==
    IF v.screen_rows # SatSub(size[2], 1) \/ v.screen_cols # size[1]
    THEN invalidate_cache([v EXCEPT !.screen_rows = SatSub(size[2], 1),
                                    !.screen_cols = size[1]])
    ELSE v

\* usize::to_string().len()
RECURSIVE DecimalLen(_)
DecimalLen(n) == IF n < 10 THEN 1 ELSE 1 + DecimalLen(n \div 10)

\* View::calculate_line_number_width
calculate_line_number_width(v, r) ==
    IF v.show_line_numbers THEN DecimalLen(LenLines(r)) + 1 ELSE 0

\* View::get_available_width
get_available_width(v, r) ==
    SatSub(SatSub(v.screen_cols, calculate_line_number_width(v, r)), 1)

\* self.line_layout_cache.get(cache_index), flattened to one Option
CacheGet(v, cache_index) ==
    IF cache_index < Len(v.line_layout_cache)
    THEN v.line_layout_cache[cache_index + 1] ELSE None

\* self.line_layout_cache[cache_index] = Some(layout), when cache_index is in range
CachePut(cache, cache_index, layout) ==
    IF cache_index < Len(cache)
    THEN [cache EXCEPT ![cache_index + 1] = Option(layout)] ELSE cache

\* View::calculate_visual_lines_for_row
calculate_visual_lines_for_row(v, r, row) ==
    IF row >= LenLines(r) THEN << <<>> >>
    ELSE LET cached == CacheGet(v, SatSub(row, v.offset_row))
         IN  IF cached.some THEN cached.val.visual_lines
             ELSE wrap_line(ExpandTabs(TrimLineEnd(RopeLine(r, row))),
                            get_available_width(v, r))

\* the for loop of visual_to_logical_col over layout.logical_to_visual
RECURSIVE LastNotAbove(_, _, _, _)
LastNotAbove(map, idx, logical_col, visual_col_total) ==
    IF idx >= Len(map) \/ map[idx + 1] > visual_col_total THEN logical_col
    ELSE LastNotAbove(map, idx + 1, idx, visual_col_total)

\* the for loop of visual_to_logical_col over line_str.chars()
RECURSIVE CountUntil(_, _, _, _)
CountUntil(line, logical_col, current_visual, visual_col_total) ==
    IF line = <<>> \/ current_visual >= visual_col_total THEN logical_col
    ELSE CountUntil(Tail(line), logical_col + 1,
                    current_visual
                    + (IF Head(line) = TAB THEN TAB_WIDTH ELSE CharWidth(Head(line))),
                    visual_col_total)

\* visual_to_logical_col, once the cached layout and the visual lines of the row
\* are at hand
LogicalColIn(cached, visual_lines, r, row, visual_line_index, visual_col) ==
    IF visual_line_index >= Len(visual_lines) THEN 0
    ELSE LET accumulated_width == SumWidths(SubSeq(visual_lines, 1, visual_line_index))
             \* a visual_col below zero stands for a wrapped (huge) usize
             col_in_visual ==
                 IF visual_col < 0
                 THEN visual_width(visual_lines[visual_line_index + 1])
                 ELSE Min(visual_col,
                          visual_width(visual_lines[visual_line_index + 1]))
             visual_col_total == accumulated_width + col_in_visual
         IN  IF cached.some
             THEN LastNotAbove(cached.val.logical_to_visual, 0, 0, visual_col_total)
             ELSE IF row < LenLines(r)
             THEN CountUntil(TrimLineEnd(RopeLine(r, row)), 0, 0, visual_col_total)
             ELSE 0

\* View::visual_to_logical_col
visual_to_logical_col(v, r, row, visual_line_index, visual_col) ==
    LogicalColIn(CacheGet(v, SatSub(row, v.offset_row)),
                 IF CacheGet(v, SatSub(row, v.offset_row)).some
                 THEN CacheGet(v, SatSub(row, v.offset_row)).val.visual_lines
                 ELSE calculate_visual_lines_for_row(v, r, row),
                 r, row, visual_line_index, visual_col)

\* View::get_effective_screen_rows
get_effective_screen_rows(v, has_debug_ruler) ==
    IF has_debug_ruler THEN SatSub(v.screen_rows, 1) ELSE v.screen_rows

\* scroll_if_needed: one round of the for loop, fresh being LineLayout::new of the
\* row; acc is [cache, visual_offset]
ScrollMeasureRow(acc, cache_index, fresh) ==
    LET cached == IF cache_index < Len(acc.cache) THEN acc.cache[cache_index + 1]
                  ELSE None
    IN  IF cached.some
        THEN [acc EXCEPT !.visual_offset = @ + cached.val.visual_height]
        ELSE IF fresh.some
        THEN [cache |-> CachePut(acc.cache, cache_index, fresh.val),
              visual_offset |-> acc.visual_offset + fresh.val.visual_height]
        ELSE acc

\* scroll_if_needed: the for loop over offset_row..=cursor.row
RECURSIVE ScrollMeasure(_, _, _, _, _, _)
ScrollMeasure(acc, row, last_row, offset_row, r, available_width) ==
    IF row > last_row THEN acc
    ELSE ScrollMeasure(ScrollMeasureRow(acc, SatSub(row, offset_row),
                                        LineLayoutNew(r, row, available_width)),
                       row + 1, last_row, offset_row, r, available_width)

\* scroll_if_needed: one round of the while loop, fresh being LineLayout::new of
\* the top row; st is [offset_row, cache, visual_offset]
ScrollDownRow(st, fresh) ==
    [offset_row |-> st.offset_row + 1,
     cache |-> IF st.cache # <<>> THEN Append(Tail(st.cache), None) ELSE st.cache,
     visual_offset |->
         IF st.cache # <<>> /\ st.cache[1].some
         THEN SatSub(st.visual_offset, st.cache[1].val.visual_height)
         ELSE IF fresh.some THEN SatSub(st.visual_offset, fresh.val.visual_height)
         ELSE st.visual_offset]

\* scroll_if_needed: the while loop that pushes offset_row down
RECURSIVE ScrollDown(_, _, _, _, _)
ScrollDown(st, cursor_row, effective_rows, r, available_width) ==
    IF ~(st.offset_row < cursor_row /\ st.visual_offset >= effective_rows) THEN st
    ELSE ScrollDown(ScrollDownRow(st, LineLayoutNew(r, st.offset_row, available_width)),
                    cursor_row, effective_rows, r, available_width)

\* scroll_if_needed: the view that keeps what the while loop left
ScrolledTo(v, st) ==
    [v EXCEPT !.offset_row = st.offset_row, !.line_layout_cache = st.cache]

\* scroll_if_needed, after the for loop has measured m = [cache, visual_offset]
ScrollMeasured(v, c, r, effective_rows, available_width, m) ==
    IF m.visual_offset < effective_rows
    THEN [v EXCEPT !.line_layout_cache = m.cache]
    ELSE ScrolledTo(v, ScrollDown([offset_row |-> v.offset_row, cache |-> m.cache,
                                   visual_offset |-> m.visual_offset],
                                  c.row, effective_rows, r, available_width))

\* View::scroll_if_needed
scroll_if_needed(v, c, r, has_debug_ruler) ==
    IF c.row < v.offset_row THEN invalidate_cache([v EXCEPT !.offset_row = c.row])
    ELSE ScrollMeasured(v, c, r, get_effective_screen_rows(v, has_debug_ruler),
                        get_available_width(v, r),
                        ScrollMeasure([cache |-> v.line_layout_cache, visual_offset |-> 0],
                                      v.offset_row, c.row, v.offset_row, r,
                                      get_available_width(v, r)))

\* View::render: one round of the loop that draws the rows, fresh being
\* LineLayout::new of the row; st is [cache, drawn, screen_row] with drawn the
\* (row, layout) pairs handed to the terminal
RenderRow(st, file_row, v, fresh) ==
    LET cache_index == SatSub(file_row, v.offset_row)
        cached == IF cache_index < Len(st.cache) THEN st.cache[cache_index + 1]
                  ELSE None
        layout == IF cached.some THEN cached.val
                  ELSE IF fresh.some THEN fresh.val ELSE EmptyLayout
        \* each visual line after the first moves one screen row down
        used == Min(Len(layout.visual_lines) - 1, v.screen_rows - st.screen_row)
    IN  [cache |-> IF ~cached.some /\ fresh.some
                   THEN CachePut(st.cache, cache_index, fresh.val) ELSE st.cache,
         drawn |-> Append(st.drawn, [row |-> file_row, layout |-> layout]),
         screen_row |-> st.screen_row + used + 1]

\* View::render: the loop that draws the rows
RECURSIVE RenderRows(_, _, _, _, _)
RenderRows(st, file_row, v, r, available_width) ==
    IF ~(st.screen_row < v.screen_rows /\ file_row < LenLines(r)) THEN st
    ELSE RenderRows(RenderRow(st, file_row, v, LineLayoutNew(r, file_row, available_width)),
                    file_row + 1, v, r, available_width)

\* View::render: the view that keeps the cache the loop left, and what was drawn
Rendered(v1, st) ==
    [view |-> [v1 EXCEPT !.line_layout_cache = st.cache], drawn |-> st.drawn]

\* View::render, after scroll_if_needed has left the view v1
RenderScrolled(v1, r, has_debug_ruler) ==
    Rendered(v1, RenderRows([cache |-> v1.line_layout_cache, drawn |-> <<>>,
                             screen_row |-> IF has_debug_ruler THEN 1 ELSE 0],
                            v1.offset_row, v1, r, get_available_width(v1, r)))

\* View::render: the view after it, and what it drew
Render(v, c, r, has_debug_ruler) ==
    RenderScrolled(scroll_if_needed(v, c, r, has_debug_ruler), r, has_debug_ruler)

(***************************************************************************)
(* Cursor (cursor.rs), as functions of a cursor c = [row, col,             *)
(* visual_line_index, desired_visual_col], the rope r and the view v       *)
(***************************************************************************)
\* Cursor::new
CursorNew == [row |-> 0, col |-> 0, visual_line_index |-> 0, desired_visual_col |-> 0]

\* Cursor::line_len
line_len(r, row) ==
    IF row < LenLines(r) THEN Len(TrimLineEnd(RopeLine(r, row))) ELSE 0

\* Cursor::char_position
char_position(c, r) == BufLineToChar(r, c.row) + c.col

\* Cursor::update_logical_col_from_visual
update_logical_col_from_visual(c, r, v) ==
    [c EXCEPT !.col = Min(visual_to_logical_col(v, r, c.row, c.visual_line_index,
                                                c.desired_visual_col),
                          line_len(r, c.row))]

\* update_visual_from_logical: the loop that finds the visual line of visual_col
RECURSIVE FindVisualLine(_, _, _, _)
FindVisualLine(visual_lines, idx, accumulated, visual_col) ==
    IF visual_col < accumulated + visual_width(visual_lines[idx + 1])
       \/ idx = Len(visual_lines) - 1
    THEN idx
    ELSE FindVisualLine(visual_lines, idx + 1,
                        accumulated + visual_width(visual_lines[idx + 1]), visual_col)

\* Cursor::update_visual_from_logical
update_visual_from_logical(c, r, v) ==
    LET visual_lines == calculate_visual_lines_for_row(v, r, c.row)
    IN  IF c.row < LenLines(r)
        THEN IF visual_lines = <<>> THEN c
             ELSE [c EXCEPT !.visual_line_index =
                       FindVisualLine(visual_lines, 0, 0,
                                      logical_col_to_visual_col(RopeLine(r, c.row), c.col))]
        ELSE [c EXCEPT !.visual_line_index = 0]

\* Cursor::sync_desired_visual_col.  The subtraction is on usize: a result d below
\* zero is the overflow of `visual_col - accumulated`, which panics when the build
\* checks overflow and otherwise wraps to 2^64 + d.
sync_desired_visual_col(c, r, v) ==
    IF c.row < LenLines(r)
    THEN LET visual_col == logical_col_to_visual_col(RopeLine(r, c.row), c.col)
             visual_lines == calculate_visual_lines_for_row(v, r, c.row)
             accumulated ==
                 SumWidths(SubSeq(visual_lines, 1,
                                  Min(c.visual_line_index, Len(visual_lines))))
         IN  [c EXCEPT !.desired_visual_col = visual_col - accumulated]
    ELSE c

\* Cursor::set_position
set_position(c, r, v, row, col) ==
    sync_desired_visual_col(
        update_visual_from_logical([c EXCEPT !.row = row, !.col = col], r, v), r, v)

\* Cursor::reset_to_line_start
reset_to_line_start(c) ==
    [c EXCEPT !.col = 0, !.visual_line_index = 0, !.desired_visual_col = 0]

\* Cursor::move_to_line_start
move_to_line_start(c) ==
    [c EXCEPT !.col = 0, !.visual_line_index = 0, !.desired_visual_col = 0]

\* Cursor::move_up
move_up(c, r, v) ==
    IF c.visual_line_index > 0
    THEN update_logical_col_from_visual(
             [c EXCEPT !.visual_line_index = c.visual_line_index - 1], r, v)
    ELSE IF c.row > 0
    THEN LET visual_lines == calculate_visual_lines_for_row(v, r, c.row - 1)
         IN  update_logical_col_from_visual(
                 [c EXCEPT !.row = c.row - 1,
                           !.visual_line_index = SatSub(Len(visual_lines), 1)], r, v)
    ELSE c

\* Cursor::move_down
move_down(c, r, v) ==
    IF c.visual_line_index + 1 < Len(calculate_visual_lines_for_row(v, r, c.row))
    THEN update_logical_col_from_visual(
             [c EXCEPT !.visual_line_index = c.visual_line_index + 1], r, v)
    ELSE IF c.row + 1 < LenLines(r)
    THEN update_logical_col_from_visual(
             [c EXCEPT !.row = c.row + 1, !.visual_line_index = 0], r, v)
    ELSE c

\* Cursor::move_left
move_left(c, r, v) ==
    sync_desired_visual_col(
        IF c.col > 0 THEN update_visual_from_logical([c EXCEPT !.col = c.col - 1], r, v)
        ELSE IF c.row > 0
        THEN update_visual_from_logical(
                 [c EXCEPT !.row = c.row - 1, !.col = line_len(r, c.row - 1)], r, v)
        ELSE c,
        r, v)

\* Cursor::move_right
move_right(c, r, v) ==
    sync_desired_visual_col(
        IF c.col < line_len(r, c.row)
        THEN update_visual_from_logical([c EXCEPT !.col = c.col + 1], r, v)
        ELSE IF c.row + 1 < LenLines(r)
        THEN [c EXCEPT !.row = c.row + 1, !.col = 0, !.visual_line_index = 0,
                       !.desired_visual_col = 0]
        ELSE c,
        r, v)

\* Cursor::move_to_line_end
move_to_line_end(c, r, v) ==
    sync_desired_visual_col(
        update_visual_from_logical([c EXCEPT !.col = line_len(r, c.row)], r, v), r, v)

\* move_page_up: the while loop; the result is target_row
RECURSIVE PageUpTarget(_, _, _, _, _)
PageUpTarget(target_row, visual_count, effective_rows, r, v) ==
    IF target_row > 0 /\ visual_count < effective_rows
    THEN PageUpTarget(target_row - 1,
                      visual_count
                      + Len(calculate_visual_lines_for_row(v, r, target_row - 1)),
                      effective_rows, r, v)
    ELSE target_row

\* Cursor::move_page_up
move_page_up(c, r, v, effective_rows) ==
    update_logical_col_from_visual(
        [c EXCEPT !.row = PageUpTarget(c.row, 0, effective_rows, r, v),
                  !.visual_line_index = 0], r, v)

\* move_page_down: the while loop; the result is target_row
RECURSIVE PageDownTarget(_, _, _, _, _, _)
PageDownTarget(target_row, visual_count, max_row, effective_rows, r, v) ==
    IF target_row < max_row /\ visual_count < effective_rows
    THEN PageDownTarget(target_row + 1,
                        visual_count
                        + Len(calculate_visual_lines_for_row(v, r, target_row)),
                        max_row, effective_rows, r, v)
    ELSE target_row

\* Cursor::move_page_down
move_page_down(c, r, v, effective_rows) ==
    LET max_row == SatSub(LenLines(r), 1)
    IN  update_logical_col_from_visual(
            [c EXCEPT !.row = Min(PageDownTarget(c.row, 0, max_row, effective_rows, r, v),
                                  max_row),
                      !.visual_line_index = 0], r, v)

(***************************************************************************)
(* CommentHandler (comment.rs) with a CommentStyle::Line(prefix); style is *)
(* Option(prefix).                                                         *)
(***************************************************************************)
HASH == 35

\* char::is_whitespace, for the characters of the model
WhiteSpace == {9, 10, 11, 12, 13, 32, 133, 160, 8232, 8233}

\* str::trim_start
RECURSIVE TrimStart(_)
TrimStart(s) == IF s # <<>> /\ Head(s) \in WhiteSpace THEN TrimStart(Tail(s)) ELSE s

\* str::len: the length in UTF-8 bytes
RECURSIVE ByteLen(_)
ByteLen(s) == IF s = <<>> THEN 0 ELSE Len(Utf8EncodeChar(Head(s))) + ByteLen(Tail(s))

\* " ".repeat(line.len() - line.trim_start().len())
LeadingSpaces(line) == [i \in 1..(ByteLen(line) - ByteLen(TrimStart(line))) |-> SPACE]

\* CommentHandler::detect_from_path: "#" for the paths of the model, which have
\* no extension
DetectFromPath(path) == Option(<<HASH>>)

\* CommentHandler::is_commented
is_commented(style, line) == style.some /\ HasPrefix(TrimStart(line), style.val)

\* CommentHandler::add_comment, for a handler that has a style
add_comment(style, line) ==
    LET trimmed == TrimStart(line)
    IN  IF trimmed = <<>> THEN Option(style.val \o <<SPACE>>)
        ELSE Option(LeadingSpaces(line) \o style.val \o <<SPACE>> \o trimmed)

\* CommentHandler::remove_comment, for a handler that has a style
remove_comment(style, line) ==
    LET trimmed == TrimStart(line)
    IN  IF HasPrefix(trimmed, style.val)
        THEN LET after_prefix == Slice(trimmed, Len(style.val), Len(trimmed))
                 uncommented == IF HasPrefix(after_prefix, <<SPACE>>) THEN Tail(after_prefix)
                                ELSE after_prefix
             IN  IF uncommented = <<>> THEN Option(<<>>)
                 ELSE Option(LeadingSpaces(line) \o uncommented)
        ELSE Option(line)

\* CommentHandler::toggle_line_comment
toggle_line_comment(style, line) ==
    IF ~style.some THEN None
    ELSE IF HasPrefix(TrimStart(line), style.val) THEN remove_comment(style, line)
    ELSE add_comment(style, line)

(***************************************************************************)
(* Editor::handle_command (editor.rs), one function per Command, over      *)
(* e = [b, cursor, view, selection, selection_mode, message,               *)
(* internal_clipboard, comment_style, should_quit, quit_times,             *)
(* overflowed]; b is the RopeBuffer and                                    *)
(* overflowed says that a usize subtraction of the command overflowed.  A  *)
(* Selection is [start, end] with (row, col) pairs.                        *)
(***************************************************************************)
EdPanic(e) == [e EXCEPT !.b = Panic(e.b)]

\* the order of (usize, usize) tuples
TupleLE(a, b) == a[1] < b[1] \/ (a[1] = b[1] /\ a[2] <= b[2])
SelMin(sel) == IF TupleLE(sel.start, sel.end) THEN sel.start ELSE sel.end
SelMax(sel) == IF TupleLE(sel.start, sel.end) THEN sel.end ELSE sel.start

\* Editor::has_selection
has_selection(e) == e.selection.some

\* get_selected_text: the for loop over start_row..=end_row; a slice whose start
\* lies beyond its end panics
RECURSIVE SelectedFrom(_, _, _, _)
SelectedFrom(r, row, lo, hi) ==
    IF row > hi[1] THEN [text |-> <<>>, panic |-> FALSE]
    ELSE LET line == TrimLineEnd(GetLineContent(r, row))
             rest == SelectedFrom(r, row + 1, lo, hi)
             part ==
                 IF row = lo[1] /\ row = hi[1]
                 THEN [text |-> Slice(line, lo[2], Min(hi[2], Len(line))),
                       panic |-> lo[2] > Min(hi[2], Len(line))]
                 ELSE IF row = lo[1]
                 THEN [text |-> Slice(line, lo[2], Len(line)) \o <<LF>>,
                       panic |-> lo[2] > Len(line)]
                 ELSE IF row = hi[1]
                 THEN [text |-> Slice(line, 0, Min(hi[2], Len(line))), panic |-> FALSE]
                 ELSE [text |-> line \o <<LF>>, panic |-> FALSE]
         IN  IF part.panic THEN [text |-> <<>>, panic |-> TRUE]
             ELSE [text |-> part.text \o rest.text, panic |-> rest.panic]

\* Editor::get_selected_text
get_selected_text(e) ==
    IF e.selection.some
    THEN SelectedFrom(e.b.rope, SelMin(e.selection.val)[1],
                      SelMin(e.selection.val), SelMax(e.selection.val))
    ELSE [text |-> <<>>, panic |-> FALSE]

\* delete_selection with end_pos taken at the start of the end row
delete_selectionKeepsEndLine(e) ==
    IF e.selection.some
    THEN LET lo == SelMin(e.selection.val)
             hi == SelMax(e.selection.val)
             start_pos == BufLineToChar(e.b.rope, lo[1]) + lo[2]
             end_pos == BufLineToChar(e.b.rope, hi[1])
             b2 == BufDeleteRange(e.b, start_pos, end_pos)
             c2 == set_position(e.cursor, b2.rope, e.view, lo[1], lo[2])
         IN  [e EXCEPT !.b = b2,
                       !.cursor = c2,
                       !.selection = None,
                       !.overflowed = @ \/ c2.desired_visual_col < 0]
    ELSE e

\* delete_selection with sel.start and sel.end taken in the order they are stored
delete_selectionUnordered(e) ==
    IF e.selection.some
    THEN LET lo == e.selection.val.start
             hi == e.selection.val.end
             start_pos == BufLineToChar(e.b.rope, lo[1]) + lo[2]
             end_pos == BufLineToChar(e.b.rope, hi[1]) + hi[2]
             b2 == BufDeleteRange(e.b, start_pos, end_pos)
             c2 == set_position(e.cursor, b2.rope, e.view, lo[1], lo[2])
         IN  [e EXCEPT !.b = b2,
                       !.cursor = c2,
                       !.selection = None,
                       !.overflowed = @ \/ c2.desired_visual_col < 0]
    ELSE e

\* a delete_selection that leaves the selection set
delete_selectionKeepsSelection(e) ==
    IF e.selection.some
    THEN LET lo == SelMin(e.selection.val)
             hi == SelMax(e.selection.val)
             start_pos == BufLineToChar(e.b.rope, lo[1]) + lo[2]
             end_pos == BufLineToChar(e.b.rope, hi[1]) + hi[2]
             b2 == BufDeleteRange(e.b, start_pos, end_pos)
             c2 == set_position(e.cursor, b2.rope, e.view, lo[1], lo[2])
         IN  [e EXCEPT !.b = b2,
                       !.cursor = c2,
                       !.overflowed = @ \/ c2.desired_visual_col < 0]
    ELSE e

\* Editor::delete_selection
delete_selection(e) ==
    IF e.selection.some
    THEN LET lo == SelMin(e.selection.val)
             hi == SelMax(e.selection.val)
             start_pos == BufLineToChar(e.b.rope, lo[1]) + lo[2]
             end_pos == BufLineToChar(e.b.rope, hi[1]) + hi[2]
             b2 == BufDeleteRange(e.b, start_pos, end_pos)
             c2 == set_position(e.cursor, b2.rope, e.view, lo[1], lo[2])
         IN  [e EXCEPT !.b = b2,
                       !.cursor = c2,
                       !.selection = None,
                       !.overflowed = @ \/ c2.desired_visual_col < 0]
    ELSE e

\* Command::Insert(ch)
CmdInsert(e, ch) ==
    LET e1 == IF has_selection(e) THEN delete_selection(e) ELSE e
        b2 == BufInsertChar(e1.b, char_position(e1.cursor, e1.b.rope), ch)
    IN  [e1 EXCEPT
            !.b = b2,
            !.cursor = IF ch = LF
                       THEN reset_to_line_start([e1.cursor EXCEPT !.row = @ + 1])
                       ELSE set_position(e1.cursor, b2.rope, e1.view,
                                         e1.cursor.row, e1.cursor.col + 1),
            !.selection = None,
            !.selection_mode = FALSE]

\* Command::Backspace
CmdBackspace(e) ==
    LET c == e.cursor
        r == e.b.rope
        e1 == IF has_selection(e) THEN delete_selection(e)
              ELSE IF c.col > 0
              THEN LET b2 == BufDeleteChar(e.b, BufLineToChar(r, c.row) + (c.col - 1))
                   IN  [e EXCEPT !.b = b2,
                                 !.cursor = set_position(c, b2.rope, e.view,
                                                         c.row, c.col - 1)]
              ELSE IF c.row > 0
              THEN LET prev_line_len == Len(TrimLineEnd(GetLineContent(r, c.row - 1)))
                       b2 == BufDeleteChar(e.b,
                                 BufLineToChar(r, c.row - 1) + prev_line_len)
                   IN  [e EXCEPT !.b = b2,
                                 !.cursor = set_position(c, b2.rope, e.view,
                                                         c.row - 1, prev_line_len)]
              ELSE e
    IN  [e1 EXCEPT !.selection_mode = FALSE]

\* Command::Delete
CmdDelete(e) ==
    LET e1 == IF has_selection(e) THEN delete_selection(e)
              ELSE [e EXCEPT !.b = BufDeleteChar(e.b, char_position(e.cursor, e.b.rope))]
    IN  [e1 EXCEPT !.selection_mode = FALSE]

\* the cursor after delete_line(row): pulled back to the last line
RowAfterDeleteLine(c, r2) ==
    IF c.row >= LenLines(r2) /\ LenLines(r2) > 0
    THEN [c EXCEPT !.row = LenLines(r2) - 1] ELSE c

\* Command::DeleteLine
CmdDeleteLine(e) ==
    LET e1 == IF has_selection(e) THEN delete_selection(e)
              ELSE LET b2 == BufDeleteLine(e.b, e.cursor.row)
                   IN  [e EXCEPT !.b = b2,
                                 !.cursor = reset_to_line_start(
                                                RowAfterDeleteLine(e.cursor, b2.rope))]
    IN  [e1 EXCEPT !.selection_mode = FALSE]

\* the Direction values of this source (FileStart and FileEnd call cursor methods
\* that cursor.rs does not define)
Directions == {"Up", "Down", "Left", "Right", "Home", "End", "PageUp", "PageDown"}

\* the cursor method a Direction or Move command calls; debug_mode is off
MoveCursor(direction, c, r, v) ==
    CASE direction = "Up" -> move_up(c, r, v)
      [] direction = "Down" -> move_down(c, r, v)
      [] direction = "Left" -> move_left(c, r, v)
      [] direction = "Right" -> move_right(c, r, v)
      [] direction = "Home" -> move_to_line_start(c)
      [] direction = "End" -> move_to_line_end(c, r, v)
      [] direction = "PageUp" ->
            move_page_up(c, r, v, get_effective_screen_rows(v, FALSE))
      [] direction = "PageDown" ->
            move_page_down(c, r, v, get_effective_screen_rows(v, FALSE))

\* Command::MoveUp, MoveDown, MoveLeft, MoveRight, MoveHome, MoveEnd, PageUp,
\* PageDown
CmdMove(e, direction) ==
    [e EXCEPT !.cursor = MoveCursor(direction, e.cursor, e.b.rope, e.view),
              !.selection = None]

\* Command::ExtendSelection(direction), were it to start the selection anew at the
\* cursor whatever selection is held
CmdExtendSelectionRestarts(e, direction) ==
    LET c2 == MoveCursor(direction, e.cursor, e.b.rope, e.view)
    IN  [e EXCEPT !.cursor = c2,
                  !.selection = Option([start |-> <<e.cursor.row, e.cursor.col>>,
                                        end |-> <<c2.row, c2.col>>])]

\* Command::ExtendSelection(direction)
CmdExtendSelection(e, direction) ==
    LET start == IF e.selection.some THEN e.selection.val.start
                 ELSE <<e.cursor.row, e.cursor.col>>
        c2 == MoveCursor(direction, e.cursor, e.b.rope, e.view)
    IN  [e EXCEPT !.cursor = c2,
                  !.selection = Option([start |-> start, end |-> <<c2.row, c2.col>>])]

\* Command::SelectAll
CmdSelectAll(e) ==
    LET last_line == SatSub(LenLines(e.b.rope), 1)
        last_col == Len(TrimLineEnd(GetLineContent(e.b.rope, last_line)))
    IN  [e EXCEPT !.selection = Option([start |-> <<0, 0>>, end |-> <<last_line, last_col>>]),
                  !.cursor.row = last_line,
                  !.cursor.col = last_col]

\* Command::ClearSelection
CmdClearSelection(e) == [e EXCEPT !.selection = None]

\* Command::ClearMessage
CmdClearMessage(e) ==
    [e EXCEPT !.selection = None, !.selection_mode = FALSE, !.message = "None"]

\* Command::ToggleSelectionMode
CmdToggleSelectionMode(e) ==
    [e EXCEPT !.selection_mode = ~e.selection_mode,
              !.selection = IF ~e.selection_mode /\ ~e.selection.some
                            THEN Option([start |-> <<e.cursor.row, e.cursor.col>>,
                                         end |-> <<e.cursor.row, e.cursor.col>>])
                            ELSE e.selection,
              !.message = IF ~e.selection_mode THEN "Selection Mode: ON"
                          ELSE "Selection Mode: OFF"]

\* the text Copy and Cut take: the selection, or the whole current line ending
\* in a newline
TextToCopy(e) ==
    IF has_selection(e) THEN get_selected_text(e)
    ELSE LET line_text == GetLineFull(e.b.rope, e.cursor.row)
         IN  [text |-> IF line_text # <<>> /\ line_text[Len(line_text)] = LF
                       THEN line_text ELSE line_text \o <<LF>>,
              panic |-> FALSE]

\* what Cut does once the text is on the clipboard
CutText(e) ==
    IF has_selection(e) THEN delete_selection(e)
    ELSE LET b2 == BufDeleteLine(e.b, e.cursor.row)
         IN  [e EXCEPT !.b = b2,
                       !.cursor = [RowAfterDeleteLine(e.cursor, b2.rope)
                                       EXCEPT !.col = 0, !.desired_visual_col = 0]]

\* the cursor after a paste that is not a whole line: the loop over text.chars()
RECURSIVE AdvanceOver(_, _)
AdvanceOver(c, text) ==
    IF text = <<>> THEN c
    ELSE AdvanceOver(IF Head(text) = LF THEN [c EXCEPT !.row = @ + 1, !.col = 0]
                     ELSE [c EXCEPT !.col = @ + 1],
                     Tail(text))

\* what Paste does with a text that is not empty
PasteText(e, text) ==
    LET e1 == IF has_selection(e) THEN delete_selection(e) ELSE e
        r == e1.b.rope
        c == e1.cursor
    IN  IF text[Len(text)] = LF
        THEN [e1 EXCEPT !.b = BufInsert(e1.b, BufLineToChar(r, c.row), text),
                        !.cursor = [c EXCEPT !.col = 0, !.desired_visual_col = 0]]
        ELSE LET c2 == AdvanceOver(c, text)
             IN  [e1 EXCEPT !.b = BufInsert(e1.b, char_position(c, r), text),
                            !.cursor = [c2 EXCEPT !.desired_visual_col = c2.col]]

\* Command::Copy.  ClipboardManager::is_available is always true, so no message
\* is set whether set_text succeeds or not.
CmdCopy(e) ==
    LET t == TextToCopy(e)
    IN  IF t.panic THEN EdPanic(e)
        ELSE [e EXCEPT !.internal_clipboard = t.text, !.selection_mode = FALSE]

\* Command::Cut
CmdCut(e) ==
    LET t == TextToCopy(e)
    IN  IF t.panic THEN EdPanic(e)
        ELSE [CutText([e EXCEPT !.internal_clipboard = t.text])
                 EXCEPT !.selection_mode = FALSE]

\* Command::Paste; got is clipboard.get_text(): Option(text), None for Err
CmdPaste(e, got) ==
    LET text == IF got.some THEN got.val ELSE e.internal_clipboard
        e1 == IF text # <<>> THEN PasteText(e, text) ELSE e
    IN  [e1 EXCEPT !.selection_mode = FALSE]

\* Command::CopyInternal
CmdCopyInternal(e) ==
    LET t == TextToCopy(e)
    IN  IF t.panic THEN EdPanic(e)
        ELSE [e EXCEPT !.internal_clipboard = t.text,
                       !.message = "Copied (internal clipboard)",
                       !.selection_mode = FALSE]

\* Command::CutInternal
CmdCutInternal(e) ==
    LET t == TextToCopy(e)
    IN  IF t.panic THEN EdPanic(e)
        ELSE [CutText([e EXCEPT !.internal_clipboard = t.text,
                                !.message = "Cut (internal clipboard)"])
                 EXCEPT !.selection_mode = FALSE]

\* Command::PasteInternal
CmdPasteInternal(e) ==
    LET e1 == IF e.internal_clipboard = <<>>
              THEN [e EXCEPT !.message = "Nothing to paste (internal clipboard)"]
              ELSE PasteText(e, e.internal_clipboard)
    IN  [e1 EXCEPT !.selection_mode = FALSE]

\* Command::Save; ok says whether fs::write succeeds
CmdSave(e, ok) ==
    [e EXCEPT !.b = BufSave(e.b, ok),
              !.message = IF SaveOk(e.b, ok) THEN "File saved" ELSE "Save failed"]

\* Command::Quit, were a single Quit to end the editor whatever the buffer holds
CmdQuitAtOnce(e) == [e EXCEPT !.should_quit = TRUE]

\* Command::Quit
CmdQuit(e) ==
    IF e.b.modified
    THEN IF e.quit_times > 0
         THEN [e EXCEPT !.should_quit = TRUE]
         ELSE [e EXCEPT !.quit_times = 1, !.message = "Unsaved changes!"]
    ELSE [e EXCEPT !.should_quit = TRUE]

\* handle_command: `if !matches!(command, Command::Quit) { self.quit_times = 0; }`,
\* applied to the editor e2 the command's arm leaves (no other arm reads quit_times)
AfterCommand(name, e2) ==
    [e2 EXCEPT !.quit_times = IF name = "Quit" THEN @ ELSE 0]

\* Command::Resize; size is crossterm::terminal::size()
CmdResize(e, size) == [e EXCEPT !.view = update_size(e.view, size)]

\* the cursor Undo and Redo set from the position the buffer returns
CursorAtPos(c, r, pos) ==
    LET row == BufCharToLine(r, pos)
        col == pos - BufLineToChar(r, row)
    IN  [c EXCEPT !.row = row, !.col = col, !.desired_visual_col = col]

\* Command::Undo, were it to send the cursor to the start of the file when there
\* is nothing to undo
CmdUndoResetsCursor(e) ==
    LET got == BufUndoResult(e.b)
        b2 == BufUndo(e.b)
    IN  IF got.some
        THEN [e EXCEPT !.b = b2, !.cursor = CursorAtPos(e.cursor, b2.rope, got.val),
                       !.message = "Undo"]
        ELSE [e EXCEPT !.b = b2, !.cursor = CursorAtPos(e.cursor, b2.rope, 0),
                       !.message = "Nothing to undo"]

\* Command::Undo, were it to leave the cursor where it is
CmdUndoKeepsCursor(e) ==
    LET got == BufUndoResult(e.b)
        b2 == BufUndo(e.b)
    IN  IF got.some
        THEN [e EXCEPT !.b = b2, !.message = "Undo"]
        ELSE [e EXCEPT !.b = b2, !.message = "Nothing to undo"]

\* Command::Undo
CmdUndo(e) ==
    LET got == BufUndoResult(e.b)
        b2 == BufUndo(e.b)
    IN  IF got.some
        THEN [e EXCEPT !.b = b2, !.cursor = CursorAtPos(e.cursor, b2.rope, got.val),
                       !.message = "Undo"]
        ELSE [e EXCEPT !.b = b2, !.message = "Nothing to undo"]

\* Command::Redo
CmdRedo(e) ==
    LET got == BufRedoResult(e.b)
        b2 == BufRedo(e.b)
    IN  IF got.some
        THEN [e EXCEPT !.b = b2, !.cursor = CursorAtPos(e.cursor, b2.rope, got.val),
                       !.message = "Redo"]
        ELSE [e EXCEPT !.b = b2, !.message = "Nothing to redo"]

\* Command::ToggleLineNumbers
CmdToggleLineNumbers(e) ==
    [e EXCEPT !.view.show_line_numbers = ~e.view.show_line_numbers]

\* ToggleComment: the replacement of line `row` by new_line
ReplaceLine(b, row, new_line) ==
    LET line_content == GetLineContent(b.rope, row)
        line_start == BufLineToChar(b.rope, row)
        line_end == IF row + 1 < LenLines(b.rope) THEN BufLineToChar(b.rope, row + 1)
                    ELSE Len(b.rope)
        b1 == BufDeleteRange(b, line_start, line_end)
        new_line_with_newline ==
            IF line_content # <<>> /\ line_content[Len(line_content)] = LF
            THEN TrimLineEnd(new_line) \o <<LF>> ELSE TrimLineEnd(new_line)
    IN  IF b1.history.panicked THEN b1
        ELSE BufInsert(b1, line_start, new_line_with_newline)

\* ToggleComment with a selection: the loop over the rows, last row first
RECURSIVE CommentRows(_, _, _, _, _)
CommentRows(b, style, row, start_row, should_add_comment) ==
    LET line_content == GetLineContent(b.rope, row)
        new_line == IF should_add_comment
                    THEN IF is_commented(style, line_content) THEN Option(line_content)
                         ELSE add_comment(style, line_content)
                    ELSE remove_comment(style, line_content)
        b1 == ReplaceLine(b, row, new_line.val)
    IN  IF row = start_row \/ b1.history.panicked THEN b1
        ELSE CommentRows(b1, style, row - 1, start_row, should_add_comment)

\* Command::ToggleComment
CmdToggleComment(e) ==
    IF ~e.comment_style.some
    THEN [e EXCEPT !.message = "No comment style for this file type"]
    ELSE IF has_selection(e)
    THEN LET start_row == SelMin(e.selection.val)[1]
             end_row == SelMax(e.selection.val)[1]
             should_add_comment ==
                 \E row \in start_row..end_row :
                     ~is_commented(e.comment_style, GetLineContent(e.b.rope, row))
         IN  [e EXCEPT !.b = CommentRows(e.b, e.comment_style, end_row, start_row,
                                         should_add_comment),
                       !.cursor.row = start_row,
                       !.cursor.col = 0,
                       !.cursor.desired_visual_col = 0,
                       !.message = IF should_add_comment THEN "Added comments"
                                   ELSE "Removed comments"]
    ELSE LET new_line == toggle_line_comment(e.comment_style,
                                             GetLineContent(e.b.rope, e.cursor.row))
         IN  [e EXCEPT !.b = ReplaceLine(e.b, e.cursor.row, new_line.val),
                       !.message = "Toggled comment"]

\* the indent text: 4 spaces
IndentText == [i \in 1..4 |-> SPACE]

\* Indent with a selection: the loop over the rows, last row first
RECURSIVE IndentRows(_, _, _)
IndentRows(b, row, start_row) ==
    LET b1 == BufInsert(b, BufLineToChar(b.rope, row), IndentText)
    IN  IF row = start_row \/ b1.history.panicked THEN b1
        ELSE IndentRows(b1, row - 1, start_row)

\* Command::Indent
CmdIndent(e) ==
    IF has_selection(e)
    THEN LET start_row == SelMin(e.selection.val)[1]
             end_row == SelMax(e.selection.val)[1]
         IN  [e EXCEPT !.b = IndentRows(e.b, end_row, start_row),
                       !.cursor.row = start_row,
                       !.cursor.col = 0,
                       !.cursor.desired_visual_col = 0]
    ELSE [e EXCEPT !.b = BufInsert(e.b, char_position(e.cursor, e.b.rope), IndentText),
                   !.cursor.col = e.cursor.col + 4,
                   !.cursor.desired_visual_col = e.cursor.col + 4]

\* chars().take_while(|c| c == ' ').take(4).count()
RECURSIVE LeadingSpaceCount(_, _)
LeadingSpaceCount(s, n) ==
    IF s # <<>> /\ Head(s) = SPACE /\ n < 4 THEN LeadingSpaceCount(Tail(s), n + 1) ELSE n

\* the reverse of a sequence
Reverse(s) == [i \in 1..Len(s) |-> s[Len(s) + 1 - i]]

\* Unindent with a selection: the loop over the rows, last row first
RECURSIVE UnindentRows(_, _, _)
UnindentRows(b, row, start_row) ==
    LET spaces_to_remove == LeadingSpaceCount(GetLineContent(b.rope, row), 0)
        line_start == BufLineToChar(b.rope, row)
        b1 == IF spaces_to_remove > 0
              THEN BufDeleteRange(b, line_start, line_start + spaces_to_remove) ELSE b
    IN  IF row = start_row \/ b1.history.panicked THEN b1
        ELSE UnindentRows(b1, row - 1, start_row)

\* Command::Unindent
CmdUnindent(e) ==
    IF has_selection(e)
    THEN LET start_row == SelMin(e.selection.val)[1]
             end_row == SelMax(e.selection.val)[1]
         IN  [e EXCEPT !.b = UnindentRows(e.b, end_row, start_row),
                       !.cursor.row = start_row,
                       !.cursor.col = 0,
                       !.cursor.desired_visual_col = 0]
    ELSE LET line_content == GetLineContent(e.b.rope, e.cursor.row)
             before_cursor == SubSeq(line_content, 1, Min(e.cursor.col, Len(line_content)))
             spaces_to_remove == LeadingSpaceCount(Reverse(before_cursor), 0)
             delete_start == BufLineToChar(e.b.rope, e.cursor.row) + e.cursor.col
                             - spaces_to_remove
         IN  IF spaces_to_remove > 0
             THEN [e EXCEPT !.b = BufDeleteRange(e.b, delete_start,
                                                 delete_start + spaces_to_remove),
                            !.cursor.col = e.cursor.col - spaces_to_remove,
                            !.cursor.desired_visual_col = e.cursor.col - spaces_to_remove]
             ELSE e

(***************************************************************************)
(* The editor specification: Editor::new, then the loop of Editor::run:    *)
(* render, read a key, handle_command.  A state is the editor waiting for  *)
(* a key; an action is handle_command for one Command followed by the      *)
(* render of the next iteration.  The editor runs without --debug.         *)
(***************************************************************************)
MaxCmds == 2

\* terminal.size() as (cols, rows)
TerminalSizes == {<<5, 3>>, <<4, 3>>}

\* what the file the editor opens holds: "aaa", "a" LF TAB
EdFiles == {NoFile, File(<<97, 97, 97>>), File(<<97, LF, TAB>>)}

\* the characters Command::Insert carries
EdChars == {97, LF}

\* what clipboard.get_text() returns: Err, or the text another program left
SystemClipboard == {None, Option(<<>>), Option(<<97>>)}

\* the editor the variables hold
Ed == [b |-> Buf, cursor |-> cursor, view |-> view, selection |-> selection,
       selection_mode |-> selection_mode, message |-> message,
       internal_clipboard |-> internal_clipboard, comment_style |-> comment_style,
       should_quit |-> should_quit, quit_times |-> quit_times,
       overflowed |-> FALSE]

\* the variables after handle_command left the editor as e2 and render ran.  A
\* usize overflow panics in a build with overflow checks and wraps in one without.
SetEd(e2) ==
    LET rn == Render(e2.view, e2.cursor, e2.b.rope, FALSE)
        overflowed == e2.overflowed \/ e2.cursor.desired_visual_col < 0
    IN  /\ \E checked \in (IF overflowed THEN BOOLEAN ELSE {FALSE}) :
               SetBuf(IF checked THEN Panic(e2.b) ELSE e2.b)
        /\ cursor' = e2.cursor
        /\ view' = IF panicked' THEN e2.view ELSE rn.view
        /\ drawn' = IF panicked' THEN <<>> ELSE rn.drawn
        /\ selection' = e2.selection
        /\ selection_mode' = e2.selection_mode
        /\ message' = e2.message
        /\ internal_clipboard' = e2.internal_clipboard
        /\ comment_style' = e2.comment_style
        /\ should_quit' = e2.should_quit
        /\ quit_times' = e2.quit_times
        /\ UNCHANGED highlight_cache

\* Editor::new and the first render
InitEditor ==
    /\ \E size \in TerminalSizes :
        /\ \/ /\ InitBuf([rope |-> <<>>, file_path |-> "None", modified |-> FALSE,
                          history |-> HistoryNew(DefaultMaxSize), in_undo_redo |-> FALSE,
                          read_encoding |-> "UTF-8", save_encoding |-> "UTF-8"])
              /\ disk = [p \in Paths |-> NoFile]
              /\ comment_style = None
           \/ \E file \in EdFiles :
              /\ InitBuf(FromFile("p", file,
                                  [read_encoding |-> "None", save_encoding |-> "None"],
                                  "UTF-8"))
              /\ disk = [p \in Paths |-> IF p = "p" THEN file ELSE NoFile]
              /\ comment_style = DetectFromPath("p")
        /\ view = Render(ViewNew(size), CursorNew, rope, FALSE).view
        /\ drawn = Render(ViewNew(size), CursorNew, rope, FALSE).drawn
    /\ cursor = CursorNew
    /\ selection = None /\ selection_mode = FALSE /\ message = "None"
    /\ internal_clipboard = <<>>
    /\ should_quit = FALSE /\ quit_times = 0 /\ highlight_cache = <<>>
    /\ cmd = [name |-> "None", changed |-> FALSE, count |-> 0]
    /\ synced = [has |-> file_path # "None" /\ disk[file_path].exists, text |-> rope]
    /\ last = [op |-> "new"]
    /\ pushed = <<>> /\ only_pushes = TRUE
    /\ idleLaw

\* handle_command(name) leaves the editor as e2
EdStep(name, e2) ==
    /\ ~panicked /\ ~should_quit
    /\ cmd.count < MaxCmds
    /\ SetEd(AfterCommand(name, e2))
    /\ cmd' = [name |-> name, changed |-> e2.b.rope # rope, count |-> cmd.count + 1]
    /\ UNCHANGED <<pushed, only_pushes, last, lawVars>>

\* a command that does not write the file
EdCommand(name, e2) == EdStep(name, e2) /\ UNCHANGED <<disk, synced>>

EdInsert == \E ch \in EdChars : EdCommand("Insert", CmdInsert(Ed, ch))
EdBackspace == EdCommand("Backspace", CmdBackspace(Ed))
EdDelete == EdCommand("Delete", CmdDelete(Ed))
EdDeleteLine == EdCommand("DeleteLine", CmdDeleteLine(Ed))
EdMove == \E direction \in Directions : EdCommand("Move", CmdMove(Ed, direction))
EdExtendSelection ==
    \E direction \in Directions :
        EdCommand("ExtendSelection", CmdExtendSelection(Ed, direction))
EdSelectAll == EdCommand("SelectAll", CmdSelectAll(Ed))
EdClearSelection == EdCommand("ClearSelection", CmdClearSelection(Ed))
EdClearMessage == EdCommand("ClearMessage", CmdClearMessage(Ed))
EdToggleSelectionMode == EdCommand("ToggleSelectionMode", CmdToggleSelectionMode(Ed))
EdCopy == EdCommand("Copy", CmdCopy(Ed))
EdCut == EdCommand("Cut", CmdCut(Ed))
EdPaste == \E got \in SystemClipboard : EdCommand("Paste", CmdPaste(Ed, got))
EdCopyInternal == EdCommand("CopyInternal", CmdCopyInternal(Ed))
EdCutInternal == EdCommand("CutInternal", CmdCutInternal(Ed))
EdPasteInternal == EdCommand("PasteInternal", CmdPasteInternal(Ed))
EdUndo == EdCommand("Undo", CmdUndo(Ed))
EdRedo == EdCommand("Redo", CmdRedo(Ed))
EdToggleLineNumbers == EdCommand("ToggleLineNumbers", CmdToggleLineNumbers(Ed))
EdToggleComment == EdCommand("ToggleComment", CmdToggleComment(Ed))
EdIndent == EdCommand("Indent", CmdIndent(Ed))
EdUnindent == EdCommand("Unindent", CmdUnindent(Ed))
EdResize == \E size \in TerminalSizes : EdCommand("Resize", CmdResize(Ed, size))
EdQuit == EdCommand("Quit", CmdQuit(Ed))

EdSave ==
    \E ok \in BOOLEAN :
        /\ EdStep("Save", CmdSave(Ed, ok))
        /\ IF file_path = "None" THEN disk' = disk
           ELSE disk' \in WriteOutcomes(file_path, SaveBytes(Buf), ok)
        /\ synced' = IF SaveOk(Buf, ok) THEN [has |-> TRUE, text |-> rope] ELSE synced

NextEditor ==
    \/ EdInsert \/ EdBackspace \/ EdDelete \/ EdDeleteLine
    \/ EdMove \/ EdExtendSelection
    \/ EdSelectAll \/ EdClearSelection \/ EdClearMessage \/ EdToggleSelectionMode
    \/ EdCopy \/ EdCut \/ EdPaste
    \/ EdCopyInternal \/ EdCutInternal \/ EdPasteInternal
    \/ EdSave \/ EdResize \/ EdQuit
    \/ EdUndo \/ EdRedo
    \/ EdToggleLineNumbers \/ EdToggleComment \/ EdIndent \/ EdUnindent

SpecEditor == InitEditor /\ [][NextEditor]_vars

\* the commands that edit, move, select, copy or restore
CursorCommands ==
    {"Insert", "Backspace", "Delete", "DeleteLine", "Move", "ExtendSelection",
     "SelectAll", "ClearSelection", "ToggleSelectionMode", "Copy", "Cut", "Paste",
     "CopyInternal", "CutInternal", "PasteInternal", "Undo", "Redo", "Indent",
     "Unindent", "ToggleComment"}

\* the number of visual sub-lines the text of line `row` has at the view's width
VisualLineCount(r, row, v) ==
    IF row < LenLines(r)
    THEN LineLayoutNew(r, row, get_available_width(v, r)).val.visual_height
    ELSE 1

\* C3: after every editor command the cursor's col is at most the length in
\* characters of line `row`, and its visual_line_index is below the number of
\* visual sub-lines of line `row`
C3_CursorInvariant ==
    (~panicked /\ cmd.name \in CursorCommands) =>
        /\ cursor.col <= line_len(rope, cursor.row)
        /\ cursor.visual_line_index < VisualLineCount(rope, cursor.row, view)

\* C4: after a command that changed the buffer content, every layout the next
\* render draws equals the layout computed from the row's current text
C4_NoStaleLayout ==
    (~panicked /\ cmd.changed) =>
        \A i \in 1..Len(drawn) :
            Option(drawn[i].layout)
                = LineLayoutNew(rope, drawn[i].row, get_available_width(view, rope))

\* C8: undo() with an empty undo stack and redo() with an empty redo stack return
\* None, the editor shows "Nothing to undo" / "Nothing to redo", and buffer
\* content, modified flag, both stacks and the cursor stay as they were
C8_ExhaustedHistoryIsNoOp ==
    [][/\ (cmd'.count = cmd.count + 1 /\ cmd'.name = "Undo" /\ undo_stack = <<>>) =>
              /\ BufUndoResult(Buf) = None
              /\ message' = "Nothing to undo"
              /\ rope' = rope /\ modified' = modified
              /\ undo_stack' = undo_stack /\ redo_stack' = redo_stack
              /\ cursor' = cursor
       /\ (cmd'.count = cmd.count + 1 /\ cmd'.name = "Redo" /\ redo_stack = <<>>) =>
              /\ BufRedoResult(Buf) = None
              /\ message' = "Nothing to redo"
              /\ rope' = rope /\ modified' = modified
              /\ undo_stack' = undo_stack /\ redo_stack' = redo_stack
              /\ cursor' = cursor]_vars

\* Undo found nothing to undo in a buffer that holds text, the cursor off the
\* start of its line
C8_Witness ==
    /\ cmd.name = "Undo" /\ message = "Nothing to undo"
    /\ undo_stack = <<>> /\ rope # <<>> /\ cursor.col > 0

\* the layout is one wrap_line gives at the width now available for text
WrappedAtWidth(layout) ==
    layout.visual_lines
        = wrap_line(Concat(layout.visual_lines), get_available_width(view, rope))

\* C32: after a command that changes the width available for text (Resize,
\* ToggleLineNumbers) no layout wrapped at the old width is drawn
C32_WidthChangeInvalidates ==
    (cmd.name \in {"Resize", "ToggleLineNumbers"} /\ ~panicked) =>
        \A i \in 1..Len(drawn) : WrappedAtWidth(drawn[i].layout)

\* a Resize that changes the number of columns empties the cache: what is drawn
\* after it is wrapped at the new width
C32_ResizeInvalidates ==
    [][(/\ cmd'.name = "Resize" /\ cmd'.count = cmd.count + 1 /\ ~panicked'
        /\ view'.screen_cols # view.screen_cols) =>
           \A i \in 1..Len(drawn') :
               drawn'[i].layout.visual_lines
                   = wrap_line(Concat(drawn'[i].layout.visual_lines),
                               get_available_width(view', rope'))]_vars

\* no edit has been made: the layouts in the cache are layouts of the text
NeverEdited == undo_stack = <<>> /\ redo_stack = <<>>

\* the visual lines calculate_visual_lines_for_row answers with for `row` are the
\* text of that row, tabs expanded
OwnVisualLines(row) ==
    Concat(calculate_visual_lines_for_row(view, rope, row))
        = ExpandTabs(TrimLineEnd(RopeLine(rope, row)))

\* C34: whatever the window offset, calculate_visual_lines_for_row answers for every
\* row < line_count with the layout of that row, never with the cached layout of
\* another row
C34_RequestedRowLayout ==
    (NeverEdited /\ ~panicked) =>
        \A row \in 0..(LenLines(rope) - 1) : OwnVisualLines(row)

\* the same for the rows at or below the window top
C34_RequestedRowLayoutInWindow ==
    (NeverEdited /\ ~panicked) =>
        \A row \in view.offset_row..(LenLines(rope) - 1) : OwnVisualLines(row)

\* the step is the command `name`, and it did not panic
Ran(name) == cmd'.count = cmd.count + 1 /\ cmd'.name = name /\ ~panicked'

\* after an ExtendSelection the selection ends at the cursor; a movement command
\* leaves no selection
EndAtCursorAndMoveClears ==
    /\ Ran("ExtendSelection") =>
           selection'.some /\ selection'.val.end = <<cursor'.row, cursor'.col>>
    /\ Ran("Move") => ~selection'.some

\* C39: in a run of consecutive ExtendSelection commands the selection starts at
\* the cursor position held before the first of them and ends at the cursor after
\* each; a movement command leaves no selection
C39_ExtendSelectionRun ==
    [][/\ EndAtCursorAndMoveClears
       /\ Ran("ExtendSelection") =>
              selection'.val.start = IF cmd.name = "ExtendSelection"
                                     THEN selection.val.start
                                     ELSE <<cursor.row, cursor.col>>]_vars

\* C39: an ExtendSelection keeps the start of the selection it finds, and starts
\* one at the cursor position held before it when it finds none; the selection
\* ends at the cursor after it; a movement command leaves no selection
C39_ExtendSelectionKeepsStart ==
    [][/\ EndAtCursorAndMoveClears
       /\ Ran("ExtendSelection") =>
              selection'.val.start = IF selection.some
                                     THEN selection.val.start
                                     ELSE <<cursor.row, cursor.col>>]_vars

\* two ExtendSelection commands have carried the cursor from (0,0) to (1,1)
C39_Witness ==
    /\ ~panicked /\ cmd.name = "ExtendSelection" /\ cmd.count = 2
    /\ selection = Option([start |-> <<0, 0>>, end |-> <<1, 1>>])
    /\ selection.val.end = <<cursor.row, cursor.col>>
    /\ message = "None"

(***************************************************************************)
(* The selection specification: an editor whose buffer, selection and      *)
(* requested cursor position are drawn from bounded sets, to which         *)
(* get_selected_text, delete_selection or Cursor::set_position is applied  *)
(* once, after at most one insert_char on the buffer.  A Selection is a    *)
(* pair of (usize, usize) points with public                               *)
(* fields, so every pair of points is a value the functions can be given.  *)
(***************************************************************************)
\* the texts: empty, "abc" LF "def" LF "ghi", "a" LF
SelTexts == {<<>>, <<97, 98, 99, LF, 100, 101, 102, LF, 103, 104, 105>>, <<97, LF>>}

\* (row, col) points, some past the end of their line or past the last row
SelPoints == {<<0, 0>>, <<0, 1>>, <<0, 2>>, <<0, 4>>, <<1, 0>>, <<2, 2>>, <<3, 0>>}

\* terminal.size() as (cols, rows)
SelTerminalSize == <<20, 5>>

InitSelection ==
    /\ \E text \in SelTexts :
        /\ InitBuf([rope |-> text, file_path |-> "None", modified |-> FALSE,
                    history |-> HistoryNew(DefaultMaxSize), in_undo_redo |-> FALSE,
                    read_encoding |-> "UTF-8", save_encoding |-> "UTF-8"])
        /\ view = Render(ViewNew(SelTerminalSize), CursorNew, text, FALSE).view
        /\ drawn = Render(ViewNew(SelTerminalSize), CursorNew, text, FALSE).drawn
    /\ \E start \in SelPoints, end \in SelPoints :
        selection = Option([start |-> start, end |-> end])
    /\ cursor = CursorNew
    /\ selection_mode = FALSE /\ message = "None"
    /\ internal_clipboard = <<>> /\ comment_style = None
    /\ should_quit = FALSE /\ quit_times = 0 /\ highlight_cache = <<>>
    /\ cmd = [name |-> "None", changed |-> FALSE, count |-> 0]
    /\ disk = [p \in Paths |-> NoFile]
    /\ synced = [has |-> FALSE, text |-> rope]
    /\ last = [op |-> "none"]
    /\ pushed = <<>> /\ only_pushes = TRUE
    /\ idleLaw

\* the variables after one of the functions left the editor as e2; an overflow of
\* a usize subtraction panics in a build with overflow checks and wraps in one
\* without
SelResult(e2, failed) ==
    /\ \E checked \in (IF e2.overflowed \/ e2.cursor.desired_visual_col < 0
                       THEN BOOLEAN ELSE {FALSE}) :
           SetBuf(IF failed \/ checked THEN Panic(e2.b) ELSE e2.b)
    /\ cursor' = e2.cursor
    /\ selection' = e2.selection
    /\ UNCHANGED <<pushed, only_pushes, disk, synced, lawVars, view, selection_mode,
                   message, internal_clipboard, comment_style, should_quit,
                   quit_times, drawn, cmd, highlight_cache>>

\* let text = self.get_selected_text();
SelGetSelectedText ==
    /\ last.op = "none"
    /\ SelResult(Ed, get_selected_text(Ed).panic)
    /\ last' = [op |-> "get_selected_text", before |-> Ed,
                text |-> get_selected_text(Ed).text]

\* self.delete_selection();
SelDeleteSelection ==
    /\ last.op = "none"
    /\ SelResult(delete_selection(Ed), FALSE)
    /\ last' = [op |-> "delete_selection", before |-> Ed,
                row |-> SelMin(selection.val)[1], col |-> SelMin(selection.val)[2]]

\* self.cursor.set_position(&self.buffer, &self.view, row, col);
SelSetPosition ==
    /\ last.op = "none"
    /\ \E p \in SelPoints :
        /\ SelResult([Ed EXCEPT !.cursor = set_position(cursor, rope, view, p[1], p[2])],
                     FALSE)
        /\ last' = [op |-> "set_position", before |-> Ed, row |-> p[1], col |-> p[2]]

\* self.buffer.insert_char(len, 'x') and a render, before the function is called:
\* the undo stack holds an action when the selection is deleted
SelInsertChar ==
    /\ last.op = "none" /\ undo_stack = <<>> /\ ~panicked
    /\ SetBuf(BufInsertChar(Buf, Len(rope), 120))
    /\ view' = Render(view, cursor, rope', FALSE).view
    /\ drawn' = Render(view, cursor, rope', FALSE).drawn
    /\ UNCHANGED <<pushed, only_pushes, disk, synced, last, lawVars, cursor, selection,
                   selection_mode, message, internal_clipboard, comment_style,
                   should_quit, quit_times, cmd, highlight_cache>>

NextSelection ==
    \/ SelGetSelectedText \/ SelDeleteSelection \/ SelSetPosition \/ SelInsertChar

SpecSelection == InitSelection /\ [][NextSelection]_vars

\* C14: after set_position(row, col), called directly or by delete_selection, with
\* row >= line_count or col greater than the length of line `row`, the cursor has
\* row < line_count and col <= the length of its row
C14_OutOfRangeClamped ==
    (/\ last.op \in {"set_position", "delete_selection"}
     /\ ~panicked
     /\ \/ last.row >= LenLines(rope)
        \/ last.col > line_len(rope, last.row)) =>
        /\ cursor.row < LenLines(rope)
        /\ cursor.col <= line_len(rope, cursor.row)

\* C15: get_selected_text and delete_selection do not panic, whatever the
\* selection and the buffer are
C15_SelectionNeverPanics ==
    (last.op \in {"get_selected_text", "delete_selection"}) => ~panicked

\* delete_selection alone does not panic unless a usize subtraction overflows
C15_DeleteSelectionNoSlicePanic ==
    (last.op = "delete_selection" /\ panicked) =>
        set_position(last.before.cursor, rope, view, last.row, last.col).desired_visual_col < 0

\* the cursor is at the start of the buffer / at the end of the last row
AtBufferStart == cursor.row = 0 /\ cursor.col = 0
AtBufferEnd ==
    /\ cursor.row = LenLines(rope) - 1
    /\ cursor.col = line_len(rope, cursor.row)

\* C16: in every state the editor reaches, move_left at (0, 0) and move_right at
\* the end of the last row overflow nothing and leave row, col, visual_line_index
\* and desired_visual_col as they were
C16_EdgeMovesAreNoOps ==
    ~panicked =>
        /\ AtBufferStart => move_left(cursor, rope, view) = cursor
        /\ AtBufferEnd => move_right(cursor, rope, view) = cursor

\* row, col and visual_line_index are left as they were by both moves
C16_EdgeMovesKeepPosition ==
    ~panicked =>
        /\ AtBufferStart =>
               [move_left(cursor, rope, view) EXCEPT !.desired_visual_col = 0]
                   = [cursor EXCEPT !.desired_visual_col = 0]
        /\ AtBufferEnd =>
               [move_right(cursor, rope, view) EXCEPT !.desired_visual_col = 0]
                   = [cursor EXCEPT !.desired_visual_col = 0]

\* the visual column of (row, col) within the visual sub-line that holds it, by
\* the layout of the row's text at the view's width
VisualColInSubLine(c, r, v) ==
    LET visual_col == logical_col_to_visual_col(RopeLine(r, c.row), c.col)
        visual_lines == LineLayoutNew(r, c.row, get_available_width(v, r)).val.visual_lines
    IN  visual_col
        - SumWidths(SubSeq(visual_lines, 1, FindVisualLine(visual_lines, 0, 0, visual_col)))

\* the cursor after each of the vertical moves of cursor c
VerticalMoves(c, r, v) ==
    { move_up(c, r, v), move_down(c, r, v),
      move_page_up(c, r, v, get_effective_screen_rows(v, FALSE)),
      move_page_down(c, r, v, get_effective_screen_rows(v, FALSE)) }

\* the cursor after each of the horizontal moves of cursor c
HorizontalMoves(c, r, v) == { move_left(c, r, v), move_right(c, r, v) }

\* C17: in every state the editor reaches, move_up, move_down, move_page_up and
\* move_page_down leave desired_visual_col as it was, and move_left and
\* move_right leave it equal to the visual column of the new (row, col) within
\* its visual sub-line
C17_StickyColumn ==
    (~panicked /\ cursor.row < LenLines(rope)) =>
        /\ \A c \in VerticalMoves(cursor, rope, view) :
               c.desired_visual_col = cursor.desired_visual_col
        /\ \A c \in HorizontalMoves(cursor, rope, view) :
               c.desired_visual_col = VisualColInSubLine(c, rope, view)

\* the vertical half: desired_visual_col is left as it was
C17_VerticalMovesKeepDesired ==
    ~panicked =>
        \A c \in VerticalMoves(cursor, rope, view) :
            c.desired_visual_col = cursor.desired_visual_col

\* the scenario: the buffer "abc" LF "def" LF "ghi", the selection (0,1)..(2,2),
\* delete_selection done
AbcDefGhiDeleted ==
    /\ last.op = "delete_selection"
    /\ last.before.b.rope = <<97, 98, 99, LF, 100, 101, 102, LF, 103, 104, 105>>
    /\ last.before.selection = Option([start |-> <<0, 1>>, end |-> <<2, 2>>])

\* C19 as stated: in the scenario the buffer is left as the single line "aghi"
C19_ScenarioLeavesAghi ==
    AbcDefGhiDeleted => rope = <<97, 103, 104, 105>>

\* C19 as amended: in the scenario the buffer is left as the single line "ai",
\* the characters before (0,1) followed by the characters from (2,2) on, and the
\* cursor is at (0,1)
C19_ScenarioLeavesAi ==
    AbcDefGhiDeleted =>
        /\ rope = <<97, 105>>
        /\ LenLines(rope) = 1
        /\ cursor.row = 0 /\ cursor.col = 1
        /\ selection = None
        /\ ~panicked

C19_Witness ==
    /\ AbcDefGhiDeleted
    /\ rope = <<97, 105>>

\* the editor with the endpoints of its selection swapped
SwappedSelection(e) ==
    [e EXCEPT !.selection = Option([start |-> e.selection.val.end,
                                    end |-> e.selection.val.start])]

\* C20: the text get_selected_text extracts (or its failure), and the buffer, the
\* cursor and the selection delete_selection leaves, are those the same function
\* gives for the selection with start and end swapped
C20_SelectionUnordered ==
    /\ (last.op = "get_selected_text") =>
           get_selected_text(SwappedSelection(last.before))
               = [text |-> last.text, panic |-> panicked]
    /\ (last.op = "delete_selection") =>
           /\ rope = delete_selection(SwappedSelection(last.before)).b.rope
           /\ undo_stack
                  = delete_selection(SwappedSelection(last.before)).b.history.undo_stack
           /\ cursor = delete_selection(SwappedSelection(last.before)).cursor
           /\ selection = delete_selection(SwappedSelection(last.before)).selection

\* delete_selection removed text for a selection stored with its end before its
\* start
C20_Witness ==
    /\ last.op = "delete_selection"
    /\ ~TupleLE(last.before.selection.val.start, last.before.selection.val.end)
    /\ rope # last.before.b.rope
    /\ cursor.row = last.before.selection.val.end[1]
    /\ cursor.col = last.before.selection.val.end[2]

\* the point (row, col) is a position of the text r: on one of its lines and not
\* past the end of that line
InBuffer(r, point) == point[1] < LenLines(r) /\ point[2] <= line_len(r, point[1])

\* delete_selection has just been given a selection with both points in the buffer
InBufferSelectionDeleted ==
    /\ last.op = "delete_selection"
    /\ InBuffer(last.before.b.rope, last.before.selection.val.start)
    /\ InBuffer(last.before.b.rope, last.before.selection.val.end)

\* what is left of the text r when the points lo..hi are cut out: everything up to
\* the first lo[2] characters of row lo[1], then row hi[1] from column hi[2] on and
\* the rows after it
CutOut(r, lo, hi) ==
    SubSeq(r, 1, RopeLineToChar(r, lo[1]) + lo[2])
        \o SubSeq(r, RopeLineToChar(r, hi[1]) + hi[2] + 1, Len(r))

\* what delete_selection does for a selection inside the buffer, but for the undo
SelectionCutOut ==
    LET before == last.before
        lo == SelMin(before.selection.val)
        hi == SelMax(before.selection.val)
        r == before.b.rope
    IN  /\ ~panicked
        /\ rope = CutOut(r, lo, hi)
        /\ cursor.row = lo[1] /\ cursor.col = lo[2]
        /\ selection = None
        /\ redo_stack = <<>>
        /\ undo_stack =
               IF lo = hi THEN before.b.history.undo_stack
               ELSE Append(before.b.history.undo_stack,
                           [kind |-> "DeleteRange",
                            start |-> RopeLineToChar(r, lo[1]) + lo[2],
                            end |-> RopeLineToChar(r, hi[1]) + hi[2],
                            text |-> SubSeq(r, RopeLineToChar(r, lo[1]) + lo[2] + 1,
                                            RopeLineToChar(r, hi[1]) + hi[2])])

\* C27 as stated: deleting a selection whose normalized start (r1,c1) and end
\* (r2,c2) are inside the buffer leaves the first c1 characters of row r1 followed
\* by row r2 from column c2 on, the other rows unchanged, the cursor at (r1,c1) and
\* no selection, by one delete_range, and a single undo restores the content
C27_DeleteSelection ==
    InBufferSelectionDeleted =>
        /\ SelectionCutOut
        /\ BufUndo(Buf).rope = last.before.b.rope

\* C27 as amended: the same, where the single undo restores the content when the
\* selection is not empty; an empty selection (start = end) deletes nothing and
\* records nothing, so an undo takes back the edit made before, if there is one
C27_DeleteSelectionNotEmpty ==
    InBufferSelectionDeleted =>
        /\ SelectionCutOut
        /\ last.before.selection.val.start # last.before.selection.val.end =>
               BufUndo(Buf).rope = last.before.b.rope
        /\ last.before.selection.val.start = last.before.selection.val.end =>
               /\ rope = last.before.b.rope
               /\ undo_stack = last.before.b.history.undo_stack

\* "abc" LF "def" LF "ghi" "x" with (1,0)..(2,2) deleted after the insertion of "x"
C27_Witness ==
    /\ InBufferSelectionDeleted
    /\ last.before.selection.val = [start |-> <<2, 2>>, end |-> <<1, 0>>]
    /\ rope = <<97, 98, 99, LF, 105, 120>>
    /\ Len(undo_stack) = 2
    /\ BufUndo(Buf).rope = <<97, 98, 99, LF, 100, 101, 102, LF, 103, 104, 105, 120>>

(***************************************************************************)
(* The paging specification: the editor opens a file with a line that      *)
(* wraps into more sub-lines than the screen has rows, and is given cursor *)
(* movement commands only.                                                 *)
(***************************************************************************)
\* what the file holds: "aaaaaaa" LF "b", "aaaaaaa"
PageFiles == {File(<<97, 97, 97, 97, 97, 97, 97, LF, 98>>),
              File(<<97, 97, 97, 97, 97, 97, 97>>)}

\* terminal.size() as (cols, rows)
PageTerminalSizes == {<<5, 3>>, <<6, 3>>}

InitPaging ==
    /\ \E size \in PageTerminalSizes, file \in PageFiles :
        /\ InitBuf(FromFile("p", file, [read_encoding |-> "None", save_encoding |-> "None"],
                            "UTF-8"))
        /\ disk = [p \in Paths |-> IF p = "p" THEN file ELSE NoFile]
        /\ view = Render(ViewNew(size), CursorNew, rope, FALSE).view
        /\ drawn = Render(ViewNew(size), CursorNew, rope, FALSE).drawn
    /\ comment_style = DetectFromPath("p")
    /\ cursor = CursorNew
    /\ selection = None /\ selection_mode = FALSE /\ message = "None"
    /\ internal_clipboard = <<>>
    /\ should_quit = FALSE /\ quit_times = 0 /\ highlight_cache = <<>>
    /\ cmd = [name |-> "None", changed |-> FALSE, count |-> 0]
    /\ synced = [has |-> TRUE, text |-> rope]
    /\ last = [op |-> "new"]
    /\ pushed = <<>> /\ only_pushes = TRUE
    /\ idleLaw

\* handle_command(MoveUp .. MovePageDown) and the render that follows
PageMove ==
    \E direction \in Directions :
        /\ ~panicked /\ ~should_quit
        /\ SetEd(AfterCommand("Move", CmdMove(Ed, direction)))
        /\ last' = [op |-> direction, before |-> cursor,
                    effective_rows |-> get_effective_screen_rows(view, FALSE),
                    height |-> VisualLineCount(rope, cursor.row, view)]
        /\ UNCHANGED <<pushed, only_pushes, disk, synced, lawVars, cmd>>

NextPaging == PageMove

SpecPaging == InitPaging /\ [][NextPaging]_vars

\* C18: after PageDown with the cursor on a line that has more visual sub-lines
\* than the screen has effective rows, the cursor is on the same logical line, on
\* the sub-line effective_rows further down (or the line's last sub-line)
C18_PageDownWithinWrappedLine ==
    (/\ last.op = "PageDown"
     /\ ~panicked
     /\ last.height > last.effective_rows) =>
        /\ cursor.row = last.before.row
        /\ cursor.visual_line_index
               = Min(last.before.visual_line_index + last.effective_rows,
                     last.height - 1)

\* where PageDown leaves the cursor by move_page_down: on the first sub-line of
\* the next logical line, or of the same line when it is the last
C18_PageDownGoesToNextLine ==
    (/\ last.op = "PageDown"
     /\ ~panicked
     /\ last.height > last.effective_rows) =>
        /\ cursor.row = Min(last.before.row + 1, LenLines(rope) - 1)
        /\ cursor.visual_line_index = 0

(***************************************************************************)
(* The typing specification: the editor starts with an empty buffer and    *)
(* is given the text "hello", typed one Command::Insert per character or   *)
(* pasted from the system clipboard at once, and Undo and Redo.            *)
(***************************************************************************)
\* "hello"
Hello == <<104, 101, 108, 108, 111>>

\* terminal.size() as (cols, rows)
TypingTerminalSizes == {<<20, 5>>, <<6, 4>>, <<4, 3>>}

InitTyping ==
    /\ InitBuf([rope |-> <<>>, file_path |-> "None", modified |-> FALSE,
                history |-> HistoryNew(DefaultMaxSize), in_undo_redo |-> FALSE,
                read_encoding |-> "UTF-8", save_encoding |-> "UTF-8"])
    /\ \E size \in TypingTerminalSizes :
        /\ view = Render(ViewNew(size), CursorNew, <<>>, FALSE).view
        /\ drawn = Render(ViewNew(size), CursorNew, <<>>, FALSE).drawn
    /\ disk = [p \in Paths |-> NoFile]
    /\ comment_style = None
    /\ cursor = CursorNew
    /\ selection = None /\ selection_mode = FALSE /\ message = "None"
    /\ internal_clipboard = <<>>
    /\ should_quit = FALSE /\ quit_times = 0 /\ highlight_cache = <<>>
    /\ cmd = [name |-> "None", changed |-> FALSE, count |-> 0]
    /\ synced = [has |-> FALSE, text |-> <<>>]
    /\ last = [op |-> "new"]
    /\ pushed = <<>> /\ only_pushes = TRUE
    /\ idleLaw

\* handle_command(name) leaves the editor as e2; the render of the next iteration
TypingStep(name, e2) ==
    /\ ~panicked /\ ~should_quit
    /\ SetEd(AfterCommand(name, e2))
    /\ last' = [op |-> name, before |-> [rope |-> rope, cursor |-> cursor,
                                           undo_stack |-> undo_stack,
                                           redo_stack |-> redo_stack]]
    /\ UNCHANGED <<pushed, only_pushes, disk, synced, lawVars, cmd>>

\* Command::Insert with the next character of "hello"
TypeNext ==
    /\ Len(rope) < Len(Hello)
    /\ rope = SubSeq(Hello, 1, Len(rope))
    /\ cursor.row = 0 /\ cursor.col = Len(rope)
    /\ TypingStep("Insert", CmdInsert(Ed, Hello[Len(rope) + 1]))

\* Command::Paste, the system clipboard holding "hello"
PasteHello ==
    /\ rope = <<>>
    /\ TypingStep("Paste", CmdPaste(Ed, Option(Hello)))

TypingUndo == TypingStep("Undo", CmdUndo(Ed))

TypingRedo == TypingStep("Redo", CmdRedo(Ed))

NextTyping == TypeNext \/ PasteHello \/ TypingUndo \/ TypingRedo

SpecTyping == InitTyping /\ [][NextTyping]_vars

\* "hello" has just been inserted into the buffer that was empty at the start
HelloInserted ==
    /\ last.op \in {"Insert", "Paste"}
    /\ rope = Hello
    /\ ~panicked

\* Undo was given once right after "hello" had been inserted
UndoneAfterHello ==
    /\ last.op = "Undo"
    /\ last.before.rope = Hello
    /\ last.before.redo_stack = <<>>
    /\ ~panicked

\* C21 as stated: after inserting "hello" into the empty buffer the cursor is at
\* col 5, and a single Undo then leaves the buffer empty with the cursor at col 0
C21_SingleUndoEmptiesBuffer ==
    /\ HelloInserted => cursor.col = 5
    /\ UndoneAfterHello => (rope = <<>> /\ cursor.col = 0)

\* C21 as amended: the cursor is at col 5; a single Undo takes back one recorded
\* insertion: all of "hello" when it was inserted at once (buffer empty, col 0),
\* the last character when it was typed (buffer "hell", col 4)
C21_SingleUndoTakesBackOneInsertion ==
    /\ HelloInserted => (cursor.row = 0 /\ cursor.col = 5)
    /\ UndoneAfterHello =>
           IF Len(last.before.undo_stack) = 1
           THEN rope = <<>> /\ cursor.row = 0 /\ cursor.col = 0
           ELSE /\ Len(last.before.undo_stack) = 5
                /\ rope = SubSeq(Hello, 1, 4) /\ cursor.row = 0 /\ cursor.col = 4

\* "hello" was inserted at once and then undone
C21_Witness ==
    /\ UndoneAfterHello
    /\ Len(last.before.undo_stack) = 1
    /\ last.before.cursor.col = 5
    /\ rope = <<>> /\ cursor.col = 0

(***************************************************************************)
(* The layout specification: expand_tabs_and_build_map, wrap_line of       *)
(* view.rs and LineWrapper::wrap_line applied once to a line and a width   *)
(* drawn from bounded sets.                                                *)
(***************************************************************************)
MaxLineChars == 3
MaxWrapWidth == 4

\* 'a', 'b', tab, a character of width 2, a character of width 0
LayoutChars == {97, 98, TAB, 20013, 768}

\* the lines of at most MaxLineChars characters
LayoutLines == UNION { [1..n -> LayoutChars] : n \in 0..MaxLineChars }

InitLayout ==
    /\ \E line \in LayoutLines, max_width \in 0..MaxWrapWidth :
        last = [op |-> "none", line |-> line, max_width |-> max_width]
    /\ BufferNew
    /\ pushed = <<>> /\ only_pushes = TRUE
    /\ disk = <<>> /\ synced = <<>>
    /\ idleLaw /\ idleEd

LayoutVarsUnchanged ==
    UNCHANGED <<histVars, rope, file_path, modified, in_undo_redo, read_encoding,
                save_encoding, disk, synced, lawVars, edVars>>

\* let (displayed_line, logical_to_visual) = expand_tabs_and_build_map(&line_str);
ExpandTabsOfLine ==
    /\ last.op = "none"
    /\ last' = [op |-> "expand_tabs_and_build_map", line |-> last.line,
                max_width |-> last.max_width,
                displayed |-> expand_tabs_and_build_map(last.line).displayed,
                logical_to_visual |-> expand_tabs_and_build_map(last.line).logical_to_visual]
    /\ LayoutVarsUnchanged

\* let visual_lines = wrap_line(&displayed_line, available_width);
WrapDisplayedLine ==
    /\ last.op = "none"
    /\ last' = [op |-> "wrap_line", line |-> last.line, max_width |-> last.max_width,
                displayed |-> ExpandTabs(last.line),
                visual_lines |-> wrap_line(ExpandTabs(last.line), last.max_width)]
    /\ LayoutVarsUnchanged

\* LineWrapper::new(max_width).wrap_line(&displayed_line)
LineWrapperWrap ==
    /\ last.op = "none"
    /\ last' = [op |-> "LineWrapper::wrap_line", line |-> last.line,
                max_width |-> last.max_width,
                displayed |-> ExpandTabs(last.line),
                visual_lines |-> LineWrapperWrapLine(ExpandTabs(last.line), last.max_width)]
    /\ LayoutVarsUnchanged

NextLayout == ExpandTabsOfLine \/ WrapDisplayedLine \/ LineWrapperWrap

SpecLayout == InitLayout /\ [][NextLayout]_vars

\* C22: the line 'a', tab, 'b' is displayed as 'a', three spaces, 'b', of visual
\* width 5, and the end of the line is at visual column 5
C22_TabExpandsToStop ==
    (last.op = "expand_tabs_and_build_map" /\ last.line = <<97, TAB, 98>>) =>
        /\ last.displayed = <<97, SPACE, SPACE, SPACE, 98>>
        /\ visual_width(last.displayed) = 5
        /\ logical_col_to_visual_col(last.line, 3) = 5

\* what the code lays out: every tab becomes TAB_WIDTH spaces wherever it stands
C22_TabExpandsToFourSpaces ==
    (last.op = "expand_tabs_and_build_map" /\ last.line = <<97, TAB, 98>>) =>
        /\ last.displayed = <<97, SPACE, SPACE, SPACE, SPACE, 98>>
        /\ visual_width(last.displayed) = 6
        /\ last.logical_to_visual = <<0, 1, 5, 6>>

\* the sub-lines are at least one, put together they are the input, and each is no
\* wider than max_width unless it is one character wider than max_width
WrappedWell(visual_lines, input, max_width) ==
    /\ Len(visual_lines) >= 1
    /\ Concat(visual_lines) = input
    /\ \A i \in 1..Len(visual_lines) :
           \/ visual_width(visual_lines[i]) <= max_width
           \/ Len(visual_lines[i]) = 1

\* C29: for every expanded display string and every available width, wrap_line
\* yields at least one sub-line, the sub-lines put together are the input, and a
\* sub-line is wider than the available width only if it is a single character
C29_WrapLine ==
    (last.op = "wrap_line") =>
        WrappedWell(last.visual_lines, last.displayed, last.max_width)

\* the same for every available width of at least 1
C29_WrapLinePositiveWidth ==
    (last.op = "wrap_line" /\ last.max_width >= 1) =>
        WrappedWell(last.visual_lines, last.displayed, last.max_width)

\* C30: wrapping a line whose display width is at most the available width yields
\* exactly one sub-line, equal to the line (wrap_line of view.rs and
\* LineWrapper::wrap_line)
C30_WrapIdempotent ==
    (/\ last.op \in {"wrap_line", "LineWrapper::wrap_line"}
     /\ visual_width(last.displayed) <= last.max_width) =>
        last.visual_lines = <<last.displayed>>

\* the same for every available width of at least 1, and for LineWrapper::wrap_line
\* at every width
C30_WrapIdempotentPositiveWidth ==
    (/\ last.op \in {"wrap_line", "LineWrapper::wrap_line"}
     /\ visual_width(last.displayed) <= last.max_width
     /\ (last.max_width >= 1 \/ last.op = "LineWrapper::wrap_line")) =>
        last.visual_lines = <<last.displayed>>

(***************************************************************************)
(* The quit specification: the loop of Editor::run given Quit among        *)
(* commands that modify the buffer, save it or do neither, until           *)
(* should_quit ends the loop.                                              *)
(***************************************************************************)
MaxQuitCmds == 4

\* what the file the editor opens holds: no file, "a"
QuitFiles == {NoFile, File(<<97>>)}

\* terminal.size() as (cols, rows)
QuitTerminalSize == <<20, 5>>

InitQuit ==
    /\ \/ /\ InitBuf([rope |-> <<>>, file_path |-> "None", modified |-> FALSE,
                      history |-> HistoryNew(DefaultMaxSize), in_undo_redo |-> FALSE,
                      read_encoding |-> "UTF-8", save_encoding |-> "UTF-8"])
          /\ disk = [p \in Paths |-> NoFile]
          /\ comment_style = None
       \/ \E file \in QuitFiles :
          /\ InitBuf(FromFile("p", file, [read_encoding |-> "None", save_encoding |-> "None"],
                              "UTF-8"))
          /\ disk = [p \in Paths |-> IF p = "p" THEN file ELSE NoFile]
          /\ comment_style = DetectFromPath("p")
    /\ view = Render(ViewNew(QuitTerminalSize), CursorNew, rope, FALSE).view
    /\ drawn = Render(ViewNew(QuitTerminalSize), CursorNew, rope, FALSE).drawn
    /\ cursor = CursorNew
    /\ selection = None /\ selection_mode = FALSE /\ message = "None"
    /\ internal_clipboard = <<>>
    /\ should_quit = FALSE /\ quit_times = 0 /\ highlight_cache = <<>>
    /\ cmd = [name |-> "None", changed |-> FALSE, count |-> 0]
    /\ synced = [has |-> file_path # "None" /\ disk[file_path].exists, text |-> rope]
    /\ last = [op |-> "new"]
    /\ pushed = <<>> /\ only_pushes = TRUE
    /\ idleLaw

\* one round of `while !self.should_quit`: handle_command(name) leaves the editor
\* as e2, then the render of the next round
QuitStep(name, e2) ==
    /\ ~panicked /\ ~should_quit
    /\ cmd.count < MaxQuitCmds
    /\ SetEd(AfterCommand(name, e2))
    /\ cmd' = [name |-> name, changed |-> e2.b.rope # rope, count |-> cmd.count + 1]
    /\ UNCHANGED <<pushed, only_pushes, last, lawVars>>

QuitInsert == QuitStep("Insert", CmdInsert(Ed, 97)) /\ UNCHANGED <<disk, synced>>

QuitUndo == QuitStep("Undo", CmdUndo(Ed)) /\ UNCHANGED <<disk, synced>>

QuitMove == QuitStep("Move", CmdMove(Ed, "Left")) /\ UNCHANGED <<disk, synced>>

QuitSave ==
    \E ok \in BOOLEAN :
        /\ QuitStep("Save", CmdSave(Ed, ok))
        /\ IF file_path = "None" THEN disk' = disk
           ELSE disk' \in WriteOutcomes(file_path, SaveBytes(Buf), ok)
        /\ synced' = IF SaveOk(Buf, ok) THEN [has |-> TRUE, text |-> rope] ELSE synced

QuitQuit == QuitStep("Quit", CmdQuit(Ed)) /\ UNCHANGED <<disk, synced>>

NextQuit == QuitInsert \/ QuitUndo \/ QuitMove \/ QuitSave \/ QuitQuit

SpecQuit == InitQuit /\ [][NextQuit]_vars

\* C23: a command ends the editor exactly when it is Quit and either the buffer is
\* not modified or the command before it was Quit too; a Quit that does not end
\* the editor shows the unsaved-changes warning and changes nothing of the buffer
C23_QuitProtocol ==
    [][(cmd'.count = cmd.count + 1 /\ ~panicked') =>
          /\ should_quit' <=> /\ cmd'.name = "Quit"
                              /\ modified => cmd.name = "Quit"
          /\ (cmd'.name = "Quit" /\ ~should_quit') =>
                 /\ message' = "Unsaved changes!"
                 /\ rope' = rope /\ modified' = modified
                 /\ undo_stack' = undo_stack /\ redo_stack' = redo_stack]_vars

\* the editor ended on the second of two Quit commands with a modified buffer
\* whose first Quit came after another command
C23_Witness ==
    /\ should_quit /\ modified
    /\ cmd.name = "Quit" /\ cmd.count >= 3
    /\ quit_times = 1
    /\ message = "Unsaved changes!"

(***************************************************************************)
(* HighlightCache (highlight/cache.rs): a map from line index to the       *)
(* CachedLine of that line, cleared when an insert finds it full.  A cache *)
(* c is [lines, max_size]; lines is a function over the cached indices.    *)
(***************************************************************************)
CharEdits == {"CharInsert", "CharDelete"}
LineEdits == {"LineInsert", "LineDelete", "MultiLineEdit"}
EditType == CharEdits \cup LineEdits

\* HighlightCache::with_capacity
CacheWithCapacity(m) == [lines |-> <<>>, max_size |-> m]

\* self.lines.get(&line_idx).map(|cached| cached.text == text).unwrap_or(false)
CacheIsValid(c, line_idx, text) ==
    line_idx \in DOMAIN c.lines /\ c.lines[line_idx].text = text

\* HighlightCache::clear
CacheClear(c) == [c EXCEPT !.lines = <<>>]

\* HighlightCache::insert: a full cache is cleared first
CacheInsert(c, line_idx, cached) ==
    LET kept == IF Cardinality(DOMAIN c.lines) >= c.max_size THEN <<>> ELSE c.lines
    IN [c EXCEPT !.lines = [i \in DOMAIN kept \cup {line_idx} |->
                               IF i = line_idx THEN cached ELSE kept[i]]]

\* HighlightCache::invalidate
CacheInvalidate(c, line_idx) ==
    [c EXCEPT !.lines = [i \in DOMAIN c.lines \ {line_idx} |-> c.lines[i]]]

\* retain(|&idx, _| idx <= line_idx)
CacheInvalidateFromInclusive(c, line_idx) ==
    [c EXCEPT !.lines = [i \in {j \in DOMAIN c.lines : j <= line_idx} |-> c.lines[i]]]

\* HighlightCache::invalidate_from: self.lines.retain(|&idx, _| idx < line_idx)
CacheInvalidateFrom(c, line_idx) ==
    [c EXCEPT !.lines = [i \in {j \in DOMAIN c.lines : j < line_idx} |-> c.lines[i]]]

\* HighlightCache::invalidate_from_edit
CacheInvalidateFromEdit(c, line_idx, edit_type) ==
    IF edit_type \in CharEdits THEN CacheInvalidateFrom(c, line_idx) ELSE CacheClear(c)

(***************************************************************************)
(* The cache specification: a cache of some capacity and the calls made on *)
(* it, with line indices up to MaxCacheLine and one past it.               *)
(***************************************************************************)
MaxCacheLine == 2
MaxCacheSize == 3
CacheIndices == 0..(MaxCacheLine + 1)
CacheTexts == {<<97>>, <<98>>}
CachedLines == {[text |-> t, highlighted |-> h] : t \in CacheTexts, h \in {"plain", "ansi"}}

InitCache ==
    /\ \E m \in 1..MaxCacheSize : highlight_cache = CacheWithCapacity(m)
    /\ last = [op |-> "with_capacity"]
    /\ BufferNew
    /\ pushed = <<>> /\ only_pushes = TRUE
    /\ disk = <<>> /\ synced = <<>>
    /\ idleLaw
    /\ cursor = NoCursor
    /\ view = <<>> /\ selection = None /\ selection_mode = FALSE
    /\ message = "None" /\ internal_clipboard = <<>> /\ comment_style = None
    /\ should_quit = FALSE /\ quit_times = 0
    /\ drawn = <<>> /\ cmd = [name |-> "None"]

CacheStep(c2, l) ==
    /\ highlight_cache' = c2
    /\ last' = l
    /\ UNCHANGED <<histVars, rope, file_path, modified, in_undo_redo, read_encoding,
                   save_encoding, disk, synced, lawVars, cursor, view, selection,
                   selection_mode, message, internal_clipboard, comment_style,
                   should_quit, quit_times, drawn, cmd>>

CacheCallInsert ==
    \E i \in 0..MaxCacheLine, cached \in CachedLines :
        CacheStep(CacheInsert(highlight_cache, i, cached),
                  [op |-> "insert", line_idx |-> i, before |-> highlight_cache.lines])
CacheCallIsValid ==
    \E i \in CacheIndices, text \in CacheTexts :
        CacheStep(highlight_cache,
                  [op |-> "is_valid", line_idx |-> i, text |-> text,
                   before |-> highlight_cache.lines,
                   result |-> CacheIsValid(highlight_cache, i, text)])
CacheCallInvalidate ==
    \E i \in CacheIndices :
        CacheStep(CacheInvalidate(highlight_cache, i),
                  [op |-> "invalidate", line_idx |-> i, before |-> highlight_cache.lines])
CacheCallInvalidateFrom ==
    \E i \in CacheIndices :
        CacheStep(CacheInvalidateFrom(highlight_cache, i),
                  [op |-> "invalidate_from", line_idx |-> i,
                   before |-> highlight_cache.lines])
CacheCallInvalidateFromEdit ==
    \E i \in CacheIndices, t \in EditType :
        CacheStep(CacheInvalidateFromEdit(highlight_cache, i, t),
                  [op |-> "invalidate_from_edit", line_idx |-> i, edit_type |-> t,
                   before |-> highlight_cache.lines])
CacheCallClear ==
    CacheStep(CacheClear(highlight_cache),
              [op |-> "clear", before |-> highlight_cache.lines])

NextCache ==
    \/ CacheCallInsert \/ CacheCallIsValid \/ CacheCallInvalidate
    \/ CacheCallInvalidateFrom \/ CacheCallInvalidateFromEdit \/ CacheCallClear
SpecCache == InitCache /\ [][NextCache]_vars

\* the cached lines are those of `before` below line n, each unchanged
KeepsExactlyBelow(n) ==
    /\ DOMAIN highlight_cache.lines = {i \in DOMAIN last.before : i < n}
    /\ \A i \in DOMAIN highlight_cache.lines : highlight_cache.lines[i] = last.before[i]

\* C25: invalidate_from(n) removes exactly the cached lines with index >= n and keeps
\* every cached line below n; invalidate_from_edit(n, t) does the same for CharInsert
\* and CharDelete and empties the cache for LineInsert, LineDelete and
\* MultiLineEdit; is_valid(i, text) is true exactly when line i is cached with text
C25_CacheInvalidation ==
    /\ last.op = "invalidate_from" => KeepsExactlyBelow(last.line_idx)
    /\ (last.op = "invalidate_from_edit" /\ last.edit_type \in CharEdits) =>
           KeepsExactlyBelow(last.line_idx)
    /\ (last.op = "invalidate_from_edit" /\ last.edit_type \in LineEdits) =>
           DOMAIN highlight_cache.lines = {}
    /\ last.op = "is_valid" =>
           (last.result <=> \E i \in DOMAIN highlight_cache.lines :
                                /\ i = last.line_idx
                                /\ highlight_cache.lines[i].text = last.text)

\* a character edit on line 1 of a cache that held lines 0, 1 and 2
C25_Witness ==
    /\ last.op = "invalidate_from_edit" /\ last.edit_type = "CharInsert"
    /\ last.line_idx = 1
    /\ DOMAIN last.before = {0, 1, 2}
    /\ DOMAIN highlight_cache.lines = {0}

(***************************************************************************)
(* The column specification: a view that has rendered a text, with the     *)
(* layouts of its rows in the cache, or without them (as after            *)
(* update_size, and as for a row render has not drawn yet), to which the   *)
(* conversions between logical and visual columns are applied once.        *)
(***************************************************************************)
MaxVisualCol == 6

\* the texts: tab "b"; wide "a" wide; "a" combining-grave "b"; zero-width-space
\* "a"; "ab" tab "c"; "abcd" LF tab; "abcde" LF "fg"; zero-width-space "a" LF "b"
ColTexts ==
    { <<TAB, 98>>, <<20013, 97, 20013>>, <<97, 768, 98>>, <<8203, 97>>,
      <<97, 98, TAB, 99>>, <<97, 98, 99, 100, LF, TAB>>,
      <<97, 98, 99, 100, 101, LF, 102, 103>>, <<8203, 97, LF, 98>> }

\* terminal.size() as (cols, rows): available widths 17 and 3
ColTerminalSizes == {<<20, 5>>, <<6, 4>>}

InitColumns ==
    /\ \E text \in ColTexts, size \in ColTerminalSizes, cached \in BOOLEAN :
        /\ InitBuf([rope |-> text, file_path |-> "None", modified |-> FALSE,
                    history |-> HistoryNew(DefaultMaxSize), in_undo_redo |-> FALSE,
                    read_encoding |-> "UTF-8", save_encoding |-> "UTF-8"])
        /\ view = IF cached THEN Render(ViewNew(size), CursorNew, text, FALSE).view
                  ELSE invalidate_cache(Render(ViewNew(size), CursorNew, text, FALSE).view)
        /\ drawn = Render(ViewNew(size), CursorNew, text, FALSE).drawn
    /\ cursor = CursorNew
    /\ selection = None /\ selection_mode = FALSE /\ message = "None"
    /\ internal_clipboard = <<>> /\ comment_style = None
    /\ should_quit = FALSE /\ quit_times = 0 /\ highlight_cache = <<>>
    /\ cmd = [name |-> "None", changed |-> FALSE, count |-> 0]
    /\ disk = [p \in Paths |-> NoFile]
    /\ synced = [has |-> FALSE, text |-> rope]
    /\ last = [op |-> "none"]
    /\ pushed = <<>> /\ only_pushes = TRUE
    /\ idleLaw

ColVarsUnchanged ==
    UNCHANGED <<histVars, rope, file_path, modified, in_undo_redo, read_encoding,
                save_encoding, disk, synced, lawVars, view, selection, selection_mode,
                message, internal_clipboard, comment_style, should_quit, quit_times,
                drawn, cmd, highlight_cache>>

\* the row's layout is in the cache
RowCached(v, row) == CacheGet(v, SatSub(row, v.offset_row)).some

\* self.view.visual_to_logical_col(buffer, row, visual_line_index, visual_col),
\* and the same call on the view without its cached layouts
ColVisualToLogical ==
    /\ last.op = "none"
    /\ \E row \in 0..(LenLines(rope) - 1), visual_line_index \in 0..2,
          visual_col \in 0..MaxVisualCol :
        last' = [op |-> "visual_to_logical_col", row |-> row,
                 visual_line_index |-> visual_line_index, visual_col |-> visual_col,
                 cached |-> RowCached(view, row),
                 result |-> visual_to_logical_col(view, rope, row, visual_line_index,
                                                  visual_col),
                 uncached |-> visual_to_logical_col(invalidate_cache(view), rope, row,
                                                    visual_line_index, visual_col)]
    /\ UNCHANGED cursor
    /\ ColVarsUnchanged

\* cursor.set_position(buffer, view, row, col) and then
\* view.visual_to_logical_col(buffer, row, cursor.visual_line_index,
\* cursor.desired_visual_col)
ColRoundTrip ==
    /\ last.op = "none"
    /\ \E row \in 0..(LenLines(rope) - 1) :
        \E col \in 0..line_len(rope, row) :
            /\ cursor' = set_position(cursor, rope, view, row, col)
            /\ last' = [op |-> "round_trip", row |-> row, col |-> col,
                        cached |-> RowCached(view, row),
                        result |-> visual_to_logical_col(view, rope, row,
                                       cursor'.visual_line_index,
                                       cursor'.desired_visual_col)]
    /\ ColVarsUnchanged

\* the cursor is on the last (first) visual sub-line of the buffer
OnLastSubLine(c, r, v) ==
    /\ c.row = LenLines(r) - 1
    /\ c.visual_line_index = Len(calculate_visual_lines_for_row(v, r, c.row)) - 1
OnFirstSubLine(c) == c.row = 0 /\ c.visual_line_index = 0

\* cursor.set_position(buffer, view, row, col); cursor.move_down(buffer, view);
\* cursor.move_up(buffer, view), or move_up and then move_down
ColThereAndBack ==
    /\ last.op = "none"
    /\ \E row \in 0..(LenLines(rope) - 1), down_first \in BOOLEAN :
        \E col \in 0..line_len(rope, row) :
            /\ cursor' = IF down_first
                         THEN move_up(move_down(set_position(cursor, rope, view, row, col),
                                                rope, view), rope, view)
                         ELSE move_down(move_up(set_position(cursor, rope, view, row, col),
                                                rope, view), rope, view)
            /\ last' = [op |-> IF down_first THEN "down_up" ELSE "up_down",
                        row |-> row, col |-> col, cached |-> RowCached(view, row),
                        start |-> set_position(cursor, rope, view, row, col)]
    /\ ColVarsUnchanged

NextColumns == ColVisualToLogical \/ ColRoundTrip \/ ColThereAndBack
SpecColumns == InitColumns /\ [][NextColumns]_vars

\* C33: with the row's layout in a cache that matches the text, visual_to_logical_col
\* returns the logical column the uncached path computes, for every row, visual
\* sub-line and visual column
C33_CachedEqualsUncached ==
    (last.op = "visual_to_logical_col" /\ last.cached) => last.result = last.uncached

\* the visual column of logical column l on the row the conversion was given
VisualColOf(l) ==
    logical_col_to_visual_col(TrimLineEnd(RopeLine(rope, last.row)), l)

\* C31: converting a valid logical column c of a row to its visual position and back
\* with visual_to_logical_col gives a logical column <= c whose visual column is the
\* greatest one that does not exceed the visual column of c
C31_RoundTrip ==
    last.op = "round_trip" =>
        /\ last.result <= last.col
        /\ VisualColOf(last.result) <= VisualColOf(last.col)
        /\ \A l \in 0..line_len(rope, last.row) :
               VisualColOf(l) <= VisualColOf(last.col) =>
                   VisualColOf(l) <= VisualColOf(last.result)

\* the round trip never lands on another visual column, and on the uncached path
\* never on a greater logical column
C31_RoundTripKeepsVisualCol ==
    last.op = "round_trip" =>
        /\ VisualColOf(last.result) = VisualColOf(last.col)
        /\ ~last.cached => last.result <= last.col

\* C36: from a cursor state produced by set_position that is not on the last
\* visual sub-line of the buffer, move_down and then move_up return the cursor to
\* the same row, col, visual_line_index and desired_visual_col; so do move_up and
\* then move_down from one that is not on the first visual sub-line
C36_ColumnMemory ==
    /\ (last.op = "down_up" /\ ~OnLastSubLine(last.start, rope, view)) =>
           cursor = last.start
    /\ (last.op = "up_down" /\ ~OnFirstSubLine(last.start)) => cursor = last.start

\* the same for the texts without characters of width zero
C36_ColumnMemoryNoZeroWidth ==
    (\A i \in 1..Len(rope) : rope[i] \notin ZeroWidthChars) => C36_ColumnMemory

(***************************************************************************)
(* The held-selection specification: the editor on a new buffer or on a    *)
(* file of two lines, given the commands that type, move, switch the       *)
(* selection mode, delete and undo or redo, so that an edit can be taken   *)
(* back while a selection is held and the cursor can leave an edited row.  *)
(***************************************************************************)
MaxHeldCmds == 4

\* terminal.size() as (cols, rows): one line of 17 columns on 4 screen rows, one
\* column on 3 screen rows
HeldTerminalSizes == {<<20, 5>>, <<4, 4>>}

\* what the file the editor opens holds: "a" LF "b"
HeldFiles == {NoFile, File(<<97, LF, 98>>)}

InitHeld ==
    /\ \E size \in HeldTerminalSizes, file \in HeldFiles :
        /\ InitBuf(FromFile("p", file,
                            [read_encoding |-> "None", save_encoding |-> "None"],
                            "UTF-8"))
        /\ disk = [p \in Paths |-> IF p = "p" THEN file ELSE NoFile]
        /\ view = Render(ViewNew(size), CursorNew, rope, FALSE).view
        /\ drawn = Render(ViewNew(size), CursorNew, rope, FALSE).drawn
    /\ comment_style = DetectFromPath("p")
    /\ cursor = CursorNew
    /\ selection = None /\ selection_mode = FALSE /\ message = "None"
    /\ internal_clipboard = <<>>
    /\ should_quit = FALSE /\ quit_times = 0 /\ highlight_cache = <<>>
    /\ cmd = [name |-> "None", changed |-> FALSE, count |-> 0]
    /\ synced = [has |-> disk["p"].exists, text |-> rope]
    /\ last = [op |-> "new"]
    /\ pushed = <<>> /\ only_pushes = TRUE
    /\ idleLaw

\* handle_command(name) leaves the editor as e2; the render of the next iteration
HeldStep(name, e2) ==
    /\ ~panicked /\ ~should_quit
    /\ cmd.count < MaxHeldCmds
    /\ SetEd(AfterCommand(name, e2))
    /\ cmd' = [name |-> name, changed |-> e2.b.rope # rope, count |-> cmd.count + 1]
    /\ UNCHANGED <<pushed, only_pushes, disk, synced, last, lawVars>>

HeldInsert == \E ch \in {97, LF} : HeldStep("Insert", CmdInsert(Ed, ch))
HeldToggleSelectionMode == HeldStep("ToggleSelectionMode", CmdToggleSelectionMode(Ed))
HeldBackspace == HeldStep("Backspace", CmdBackspace(Ed))
HeldDelete == HeldStep("Delete", CmdDelete(Ed))
HeldUndo == HeldStep("Undo", CmdUndo(Ed))
HeldRedo == HeldStep("Redo", CmdRedo(Ed))
HeldMove ==
    \E direction \in {"Up", "Down", "Left", "Right"} :
        HeldStep("Move", CmdMove(Ed, direction))

NextHeld ==
    \/ HeldInsert \/ HeldToggleSelectionMode \/ HeldBackspace \/ HeldDelete
    \/ HeldUndo \/ HeldRedo \/ HeldMove
SpecHeld == InitHeld /\ [][NextHeld]_vars

\* C35: in every state the editor reaches the cursor is on a row of the buffer
C35_CursorRowInBuffer == ~panicked => cursor.row < LenLines(rope)

\* the visual height, by the current text, of the rows from..to
RECURSIVE HeightOfRows(_, _)
HeightOfRows(from, to) ==
    IF from > to THEN 0
    ELSE (IF LineLayoutNew(rope, from, get_available_width(view, rope)).some
          THEN LineLayoutNew(rope, from, get_available_width(view, rope)).val.visual_height
          ELSE 0)
         + HeightOfRows(from + 1, to)

\* C37: after scroll_if_needed (every state is one a render has left) the cursor's
\* row is on screen: offset_row <= cursor.row, and offset_row = cursor.row or the
\* rows offset_row..cursor.row are, by the current text, less than the effective
\* screen rows high
C37_CursorRowOnScreen ==
    ~panicked =>
        /\ view.offset_row <= cursor.row
        /\ \/ view.offset_row = cursor.row
           \/ HeightOfRows(view.offset_row, cursor.row)
                  < get_effective_screen_rows(view, FALSE)

\* the same in the states reached without an edit and without a change of width
C37_CursorRowOnScreenFreshCache ==
    (NeverEdited /\ view.show_line_numbers) => C37_CursorRowOnScreen

(***************************************************************************)
(* The cut-and-paste specification: the editor on a file, given movements, *)
(* extensions of the selection, Cut and Paste; `last` remembers the buffer *)
(* a Cut found, for the Paste that follows it at once.                     *)
(***************************************************************************)
MaxCutPasteCmds == 4
CutPasteTerminalSize == <<20, 5>>

\* what the file holds: "a", "a" LF, "ab" LF "c"
CutPasteFiles == {File(<<97>>), File(<<97, LF>>), File(<<97, 98, LF, 99>>)}

InitCutPaste ==
    /\ \E file \in CutPasteFiles :
        /\ InitBuf(FromFile("p", file,
                            [read_encoding |-> "None", save_encoding |-> "None"],
                            "UTF-8"))
        /\ disk = [p \in Paths |-> IF p = "p" THEN file ELSE NoFile]
    /\ view = Render(ViewNew(CutPasteTerminalSize), CursorNew, rope, FALSE).view
    /\ drawn = Render(ViewNew(CutPasteTerminalSize), CursorNew, rope, FALSE).drawn
    /\ comment_style = DetectFromPath("p")
    /\ cursor = CursorNew
    /\ selection = None /\ selection_mode = FALSE /\ message = "None"
    /\ internal_clipboard = <<>>
    /\ should_quit = FALSE /\ quit_times = 0 /\ highlight_cache = <<>>
    /\ cmd = [name |-> "None", changed |-> FALSE, count |-> 0]
    /\ synced = [has |-> TRUE, text |-> rope]
    /\ last = [op |-> "new"]
    /\ pushed = <<>> /\ only_pushes = TRUE
    /\ idleLaw

\* handle_command(name) leaves the editor as e2; the render of the next iteration
CutPasteStep(name, e2) ==
    /\ ~panicked /\ ~should_quit
    /\ cmd.count < MaxCutPasteCmds
    /\ SetEd(AfterCommand(name, e2))
    /\ cmd' = [name |-> name, changed |-> e2.b.rope # rope, count |-> cmd.count + 1]
    /\ UNCHANGED <<pushed, only_pushes, disk, synced, lawVars>>

CutPasteMove ==
    \E direction \in {"Down", "Right", "End"} :
        /\ CutPasteStep("Move", CmdMove(Ed, direction))
        /\ last' = [op |-> "Move"]
CutPasteExtendSelection ==
    \E direction \in {"Down", "Right", "Left"} :
        /\ CutPasteStep("ExtendSelection", CmdExtendSelection(Ed, direction))
        /\ last' = [op |-> "ExtendSelection"]
CutPasteCut ==
    /\ CutPasteStep("Cut", CmdCut(Ed))
    /\ last' = [op |-> "Cut", before |-> rope, selection |-> selection,
                row |-> cursor.row]
\* clipboard.get_text() is Err, or the text the Cut or Copy before it set
CutPastePaste ==
    \E got \in {None, Option(internal_clipboard)} :
        /\ CutPasteStep("Paste", CmdPaste(Ed, got))
        /\ last' = IF last.op = "Cut"
                   THEN [last EXCEPT !.op = "CutPaste"]
                   ELSE [op |-> "Paste"]

NextCutPaste ==
    CutPasteMove \/ CutPasteExtendSelection \/ CutPasteCut \/ CutPastePaste
SpecCutPaste == InitCutPaste /\ [][NextCutPaste]_vars

\* C38: a Cut followed at once by a Paste restores the buffer content the Cut found
C38_CutPasteRestores ==
    (last.op = "CutPaste" /\ ~panicked) => rope = last.before

\* the same for a cut selection whose text does not end in a line feed, and for a
\* whole-line cut of a line that ends in one
C38_CutPasteRestoresUnlessLineEnd ==
    (/\ last.op = "CutPaste" /\ ~panicked
     /\ IF last.selection.some
        THEN internal_clipboard = <<>>
             \/ internal_clipboard[Len(internal_clipboard)] # LF
        ELSE internal_clipboard = RopeLine(last.before, last.row))
        => rope = last.before

\* the same for a cut selection that ends at the start of a line and starts at the
\* start of one
C38_CutPasteRestoresWholeLines ==
    (/\ last.op = "CutPaste" /\ ~panicked
     /\ last.selection.some
     /\ internal_clipboard # <<>>
     /\ internal_clipboard[Len(internal_clipboard)] = LF
     /\ last.selection.val.start[2] = 0 /\ last.selection.val.end[2] = 0)
        => rope = last.before

\* the same for every cut selection
C38_CutSelectionPasteRestores ==
    (last.op = "CutPaste" /\ ~panicked /\ last.selection.some)
        => rope = last.before

====
